---- MODULE Spec2Model ----
(***************************************************************************)
(* Model of the Withings import of body-composition-tracking:              *)
(*   - TokenStorage / WithingsAuth : the OAuth2 token life cycle           *)
(*   - WithingsSource              : fetch, mapping, merge into the CSV    *)
(* Source: src/body_comp_tracking/data_sources/withings_source.py          *)
(*                                                                         *)
(* Representation.  A Python Optional / a missing dict key is the empty    *)
(* sequence <<>>, a present value v is <<v>>.  A measured quantity held in *)
(* memory is an integer number of grams (the float value * 10**unit); a    *)
(* numeric cell of the CSV is an integer number of 1/100 kg (the text      *)
(* written by the "%.2f" format).  A timestamp is an integer.              *)
(***************************************************************************)
EXTENDS Integers, Sequences, FiniteSets, TLC

\* ------------------------------------------------------------------ bounds
\* a vendor response holds at most MaxGroups measure groups
MaxGroups == 2
\* a store that exists before the first import holds at most MaxRows rows
MaxRows == 2
\* at most MaxRequests requests reach the callback socket during one run
MaxRequests == 2
\* a measure group holds at most MaxMeasures measures
MaxMeasures == 3
\* a second encoding of a quantity has at most MaxShift more decimals
MaxShift == 2

\* the measurement dates (timestamps) of the samples
Dates == {1, 2}

None == <<>>
Some(v) == <<v>>

\* ------------------------------------------------------- measurement dicts
\* The keys a measurement dict can hold.  fat_free_mass_kg is the transient
\* key of the incremental path.
Keys == {"weight_kg", "fat_mass_kg", "bone_mass_kg", "muscle_mass_kg",
         "hydration_kg", "fat_free_mass_kg"}

\* {} : no key present
EmptyData == [k \in Keys |-> None]

\* data.get(key, 0)
GetOr0(data, key) == IF data[key] = None THEN 0 ELSE data[key][1]

\* value * (10 ** unit), in grams; the samples use unit exponents -3..0
Pow10(n) == IF n = 0 THEN 1 ELSE IF n = 1 THEN 10 ELSE IF n = 2 THEN 100 ELSE 1000
Scale(value, unit) == value * Pow10(unit + 3)

\* a mapping that files every type it does not know under weight
map_unknown_as_weight(data, measure_type, value) ==
    IF measure_type = 8 THEN [data EXCEPT !["fat_mass_kg"] = Some(value)]
    ELSE IF measure_type = 88 THEN [data EXCEPT !["bone_mass_kg"] = Some(value)]
    ELSE IF measure_type = 5 THEN [data EXCEPT !["muscle_mass_kg"] = Some(value)]
    ELSE IF measure_type = 77 THEN [data EXCEPT !["hydration_kg"] = Some(value)]
    ELSE [data EXCEPT !["weight_kg"] = Some(value)]

\* WithingsSource._map_measurement_type
map_measurement_type(data, measure_type, value) ==
    IF measure_type = 1 THEN [data EXCEPT !["weight_kg"] = Some(value)]
    ELSE IF measure_type = 8 THEN [data EXCEPT !["fat_mass_kg"] = Some(value)]
    ELSE IF measure_type = 88 THEN [data EXCEPT !["bone_mass_kg"] = Some(value)]
    ELSE IF measure_type = 5 THEN [data EXCEPT !["muscle_mass_kg"] = Some(value)]
    ELSE IF measure_type = 77 THEN [data EXCEPT !["hydration_kg"] = Some(value)]
    ELSE data

\* WithingsSource._map_measurement_type_for_incremental
map_measurement_type_for_incremental(data, measure_type, value) ==
    IF measure_type = 1 THEN [data EXCEPT !["weight_kg"] = Some(value)]
    ELSE IF measure_type = 8 THEN [data EXCEPT !["fat_mass_kg"] = Some(value)]
    ELSE IF measure_type = 88 THEN [data EXCEPT !["bone_mass_kg"] = Some(value)]
    ELSE IF measure_type = 5 THEN [data EXCEPT !["fat_free_mass_kg"] = Some(value)]
    ELSE IF measure_type = 77 THEN [data EXCEPT !["hydration_kg"] = Some(value)]
    ELSE data

\* A dict keyed by timestamp is a function from its keys to measurement dicts.
NoMeasurements == [t \in {} |-> EmptyData]
DictKeys(d) == DOMAIN d
DictGet(d, t) == d[t]
\* d[t] = data
DictSet(d, t, data) == [k \in DOMAIN d \cup {t} |-> IF k = t THEN data ELSE d[k]]

\* the inner loop over measure_group["measures"]
RECURSIVE MapMeasures(_, _, _)
MapMeasures(data, measures, incremental) ==
    IF measures = <<>> THEN data
    ELSE MapMeasures(
            IF incremental
            THEN map_measurement_type_for_incremental(
                    data, Head(measures).type, Scale(Head(measures).value, Head(measures).unit))
            ELSE map_measurement_type(
                    data, Head(measures).type, Scale(Head(measures).value, Head(measures).unit)),
            Tail(measures), incremental)

\* a loop over the groups in which a group replaces the record its timestamp
\* already has
RECURSIVE ProcessGroupsReplacing(_, _, _)
ProcessGroupsReplacing(d, groups, incremental) ==
    IF groups = <<>> THEN d
    ELSE ProcessGroupsReplacing(
            DictSet(d, Head(groups).date,
                    MapMeasures(EmptyData, Head(groups).measures, incremental)),
            Tail(groups), incremental)

\* the loop over response["body"]["measuregrps"], shared by the two paths
RECURSIVE ProcessGroups(_, _, _)
ProcessGroups(d, groups, incremental) ==
    IF groups = <<>> THEN d
    ELSE ProcessGroups(
            DictSet(d, Head(groups).date,
                    MapMeasures(IF Head(groups).date \in DictKeys(d)
                                THEN DictGet(d, Head(groups).date) ELSE EmptyData,
                                Head(groups).measures, incremental)),
            Tail(groups), incremental)

\* WithingsSource._process_api_measurements
process_api_measurements(response) == ProcessGroups(NoMeasurements, response, FALSE)

\* WithingsSource._process_api_measurements_for_incremental
process_api_measurements_for_incremental(response) == ProcessGroups(NoMeasurements, response, TRUE)

\* a correction that leaves the fat-free mass in the muscle mass field
KeepFatFreeMass(data) ==
    IF GetOr0(data, "muscle_mass_kg") > 0 THEN data
    ELSE [data EXCEPT !["muscle_mass_kg"] = None]

\* one iteration of WithingsSource._apply_muscle_mass_correction
CorrectAll(data) ==
    LET fat_free_mass == GetOr0(data, "muscle_mass_kg")
        bone_mass_val == GetOr0(data, "bone_mass_kg")
    IN IF fat_free_mass > 0
       THEN [data EXCEPT !["muscle_mass_kg"] =
                Some(IF bone_mass_val > 0 THEN fat_free_mass - bone_mass_val ELSE fat_free_mass)]
       ELSE [data EXCEPT !["muscle_mass_kg"] = None]

\* WithingsSource._apply_muscle_mass_correction
apply_muscle_mass_correction(measurements) ==
    [t \in DOMAIN measurements |-> CorrectAll(measurements[t])]

\* an incremental correction that writes the fat-free mass as the muscle mass
CorrectIncrementalUnadjusted(data) ==
    LET fat_free_mass == GetOr0(data, "fat_free_mass_kg")
        d1 == IF fat_free_mass > 0
              THEN [data EXCEPT !["muscle_mass_kg"] = Some(fat_free_mass)]
              ELSE data
    IN [d1 EXCEPT !["fat_free_mass_kg"] = None]

\* one iteration of WithingsSource._apply_muscle_mass_correction_for_incremental
CorrectIncremental(data) ==
    LET fat_free_mass == GetOr0(data, "fat_free_mass_kg")
        bone_mass_val == GetOr0(data, "bone_mass_kg")
        d1 == IF fat_free_mass > 0
              THEN [data EXCEPT !["muscle_mass_kg"] =
                      Some(IF bone_mass_val > 0 THEN fat_free_mass - bone_mass_val ELSE fat_free_mass)]
              ELSE data
    IN [d1 EXCEPT !["fat_free_mass_kg"] = None]

\* WithingsSource._apply_muscle_mass_correction_for_incremental
apply_muscle_mass_correction_for_incremental(measurements) ==
    [t \in DOMAIN measurements |-> CorrectIncremental(measurements[t])]

\* ------------------------------------------------------------ the CSV file
\* f"{float(value):.2f}" of a value in grams: the nearest 1/100 kg.  For a
\* value half way between two of them the format goes by the binary64 number
\* that stands for it (see FormatFloat); here such a tie goes to the even
\* neighbour, and the samples of the import engine hold no tie.
Abs(x) == IF x < 0 THEN -x ELSE x
RoundNat(a) ==
    IF a % 10 > 5 \/ (a % 10 = 5 /\ (a \div 10) % 2 = 1) THEN (a \div 10) + 1 ELSE a \div 10
Round2(g) == IF g < 0 THEN -RoundNat(Abs(g)) ELSE RoundNat(g)

\* WithingsSource._get_formatted_metric: "" when the key is absent or None
get_formatted_metric(data, key) ==
    IF data[key] = None THEN None ELSE Some(Round2(data[key][1]))

\* WithingsSource._format_optional_metric
format_optional_metric(data, key) ==
    IF data[key] = None THEN None ELSE Some(Round2(data[key][1]))

\* the columns after Date, in file order
Columns == <<"weight_kg", "fat_mass_kg", "bone_mass_kg", "muscle_mass_kg", "hydration_kg">>

\* a reader that takes an empty cell for zero
ParseBlankAsZero(cell) == IF cell = None THEN Some(0) ELSE Some(cell[1] * 10)

\* float(text) of a written cell: 1/100 kg back to grams
ParseCell(cell) == IF cell = None THEN None ELSE Some(cell[1] * 10)

\* sorted(measurements.keys()) with reverse=True left out: oldest first
RECURSIVE SortedAsc(_)
SortedAsc(S) ==
    IF S = {} THEN <<>>
    ELSE LET m == CHOOSE x \in S : \A y \in S : x <= y
         IN <<m>> \o SortedAsc(S \ {m})

\* sorted(measurements.keys(), reverse=True)
RECURSIVE SortedDesc(_)
SortedDesc(S) ==
    IF S = {} THEN <<>>
    ELSE LET m == CHOOSE x \in S : \A y \in S : y <= x
         IN <<m>> \o SortedDesc(S \ {m})

\* the loop of _write_all_data_to_csv over the sorted timestamps
WriteAllRows(measurements, order) ==
    [i \in 1..Len(order) |->
        [date |-> Some(order[i]),
         cells |-> [c \in 1..5 |-> get_formatted_metric(measurements[order[i]], Columns[c])]]]

\* the rows WithingsSource._write_all_data_to_csv writes after the header
write_all_data_to_csv(measurements) ==
    WriteAllRows(measurements, SortedDesc(DictKeys(measurements)))

\* the loop of _write_measurements_to_csv over the sorted timestamps
WriteRows(measurements, order) ==
    [i \in 1..Len(order) |->
        [date |-> Some(order[i]),
         cells |-> [c \in 1..5 |-> format_optional_metric(measurements[order[i]], Columns[c])]]]

\* the rows WithingsSource._write_measurements_to_csv writes after the header
write_measurements_to_csv(measurements) ==
    WriteRows(measurements, SortedDesc(DictKeys(measurements)))

\* a load that gives up at the first line whose date does not parse or that
\* has too few fields, keeping what it had read so far
RECURSIVE LoadUntilMalformed(_, _, _)
LoadUntilMalformed(rows, stamps, data) ==
    IF rows = <<>> THEN <<stamps, data>>
    ELSE LET r == Head(rows)
         IN IF r.date = None \/ Len(r.cells) < 5
            THEN <<stamps, data>>
            ELSE LoadUntilMalformed(Tail(rows), stamps \cup {r.date[1]},
                          DictSet(data, r.date[1],
                                  [EmptyData EXCEPT
                                      !["weight_kg"] = ParseCell(r.cells[1]),
                                      !["fat_mass_kg"] = ParseCell(r.cells[2]),
                                      !["bone_mass_kg"] = ParseCell(r.cells[3]),
                                      !["muscle_mass_kg"] = ParseCell(r.cells[4]),
                                      !["hydration_kg"] = ParseCell(r.cells[5])]))

\* WithingsSource._load_existing_csv_data: <<existing_timestamps, existing_data>>.
\* A row is [date, cells]: date is None when the date text does not parse,
\* cells are the numeric cells present on the line (five on a full line).
\* The timestamp is recorded before the cells are looked at.
RECURSIVE LoadRows(_, _, _)
LoadRows(rows, stamps, data) ==
    IF rows = <<>> THEN <<stamps, data>>
    ELSE LET r == Head(rows)
         IN IF r.date = None
            THEN LoadRows(Tail(rows), stamps, data)
            ELSE LoadRows(Tail(rows), stamps \cup {r.date[1]},
                          IF Len(r.cells) >= 5
                          THEN DictSet(data, r.date[1],
                                  [EmptyData EXCEPT
                                      !["weight_kg"] = ParseCell(r.cells[1]),
                                      !["fat_mass_kg"] = ParseCell(r.cells[2]),
                                      !["bone_mass_kg"] = ParseCell(r.cells[3]),
                                      !["muscle_mass_kg"] = ParseCell(r.cells[4]),
                                      !["hydration_kg"] = ParseCell(r.cells[5])])
                          ELSE data)

load_existing_csv_data(file) == LoadRows(file.rows, {}, NoMeasurements)

\* the merge with all_measurements.update(existing_data) left out: only the
\* measurements that are new survive
AddNewOnly(all, new, stamps) == [t \in DOMAIN new \ stamps |-> new[t]]

\* the loop of _merge_with_existing_data over new_measurements.items(): the
\* keys are distinct, so the order of the iterations does not matter
AddNew(all, new, stamps) ==
    [t \in DOMAIN all \cup (DOMAIN new \ stamps) |->
        IF t \in DOMAIN new \ stamps THEN new[t] ELSE all[t]]

\* WithingsSource._merge_with_existing_data
MergeLoaded(loaded, new_measurements) == AddNew(loaded[2], new_measurements, loaded[1])
merge_with_existing_data(file, new_measurements) ==
    MergeLoaded(IF file.exists THEN load_existing_csv_data(file) ELSE <<{}, NoMeasurements>>,
                new_measurements)

\* ------------------------------------------------------------ token records
\* A token dict.  Every key may be missing; {} is the dict with no key.
TokenDict(access, refresh, at, in) ==
    [access_token |-> access, refresh_token |-> refresh, expires_at |-> at, expires_in |-> in]

EmptyDict == TokenDict(None, None, None, None)

\* Python truthiness of an Optional[dict]: None and {} are falsy
Truthy(tok) == tok # None /\ tok[1] # EmptyDict

\* The token file: no file, a file of text json.load cannot turn into a dict
\* (not JSON, or JSON that is not an object), a file whose bytes are not text
\* in the encoding open() reads with, or a dict
NoFile == [kind |-> "absent", tok |-> EmptyDict]
Garbage == [kind |-> "garbage", tok |-> EmptyDict]
Undecodable == [kind |-> "undecodable", tok |-> EmptyDict]
FileOf(d) == [kind |-> "dict", tok |-> d]

\* a storage that never finds a token
load_nothing(file) == None

\* TokenStorage.load_token raises: json.load reads the file in text mode, and
\* the UnicodeDecodeError of f.read() is neither JSONDecodeError nor IOError
load_token_raises(file) == file.kind = "undecodable"

\* a load_token that treats every unreadable file as no file
load_token_tolerant(file) ==
    [outcome |-> "ok", ret |-> IF file.kind = "dict" THEN Some(file.tok) ELSE None]

\* TokenStorage.load_token, the value it returns when it returns
load_token(file) == IF file.kind = "dict" THEN Some(file.tok) ELSE None

\* TokenStorage.load_token as a call: how it ends and what it returns
load_token_call(file) ==
    IF load_token_raises(file)
    THEN [outcome |-> "UnicodeDecodeError", ret |-> None]
    ELSE [outcome |-> "ok", ret |-> load_token(file)]

\* a clear_token that leaves the file in place
keep_token_file(file) == file

\* TokenStorage.clear_token: the file is removed when it exists
clear_token(file) == IF file.kind = "absent" THEN file ELSE NoFile

\* TokenStorage.save_token; when open() raises IOError the file is left as it was
save_token(file, d, save_ok) == IF save_ok THEN FileOf(d) ELSE file

\* the lookahead of WithingsAuth._is_token_expired, in seconds
Lookahead == 60

\* an expiry test without the lookahead: expired only once expires_at is past
is_token_expired_no_lookahead(tok, t) ==
    IF tok = None \/ tok[1].expires_at = None THEN tok = None
    ELSE t > tok[1].expires_at[1]

\* WithingsAuth._is_token_expired
is_token_expired(tok, t) ==
    IF ~Truthy(tok) THEN TRUE
    ELSE IF tok[1].expires_at = None THEN FALSE
    ELSE t > tok[1].expires_at[1] - Lookahead

\* the token kept as the vendor supplied it, no expires_at computed
KeepAsSupplied(d, t) == d

\* "Add expires_at timestamp if it's not present" (authenticate, refresh_token)
AddExpiresAt(d, t) ==
    IF d.expires_at = None /\ d.expires_in # None
    THEN [d EXCEPT !.expires_at = Some(t + d.expires_in[1])]
    ELSE d

\* What one WithingsAuth call did: the in-memory token and the token file it
\* leaves, how it ended, what it returned, and the effects it had on the way.
\*   refresh  refresh_token() was called       net     token-endpoint requests
\*   saves    save_token calls                 clears  clear_token calls
\*   browser  the interactive flow was started
\*   checked  the in-memory token _is_token_expired looked at (get_token)
Effect(tok, file, outcome, ret, refresh, net, saves, clears, browser, checked) ==
    [token |-> tok, file |-> file, outcome |-> outcome, ret |-> ret, refresh |-> refresh,
     net |-> net, saves |-> saves, clears |-> clears, browser |-> browser, checked |-> checked]

\* WithingsAuth.refresh_token.  env.refresh is the answer of the token endpoint
\* (None: the request raises), env.save_ok whether save_token succeeds.
refresh_token(tok, file, t, env) ==
    IF ~Truthy(tok) \/ tok[1].refresh_token = None
    THEN Effect(tok, file, "ValueError", None, TRUE, 0, 0, 0, FALSE, None)
    ELSE IF env.refresh = None
    THEN Effect(tok, clear_token(file), "error", None, TRUE, 1, 0, 1, FALSE, None)
    ELSE LET new == AddExpiresAt(env.refresh[1], t)
         IN IF env.save_ok
            THEN Effect(Some(new), save_token(file, new, TRUE), "ok", Some(new),
                        TRUE, 1, 1, 0, FALSE, None)
            ELSE Effect(Some(new), clear_token(save_token(file, new, FALSE)), "error", None,
                        TRUE, 1, 1, 1, FALSE, None)

\* a get_token that refreshes the token on every call, expired or not
get_token_refreshing(tok, file, t, env) ==
    LET tok1 == IF tok # None /\ tok[1].access_token # None THEN tok
                ELSE IF file.kind = "dict" THEN <<file.tok>> ELSE tok
        r == refresh_token(tok1, file, t, env)
    IN IF r.outcome = "ok"
       THEN [r EXCEPT !.token = r.ret, !.checked = tok1]
       ELSE [r EXCEPT !.token = None, !.outcome = "ValueError", !.checked = tok1]

\* WithingsAuth.get_token
get_token(tok, file, t, env) ==
    LET stored == load_token(file)
        tok1 == IF ~Truthy(tok) THEN stored ELSE tok
    IN IF ~Truthy(tok) /\ load_token_raises(file)
       THEN Effect(tok, file, "UnicodeDecodeError", None, FALSE, 0, 0, 0, FALSE, None)
       ELSE IF ~Truthy(tok) /\ ~Truthy(stored)
       THEN Effect(tok, file, "ValueError", None, FALSE, 0, 0, 0, FALSE, None)
       ELSE IF is_token_expired(tok1, t)
       THEN LET r == refresh_token(tok1, file, t, env)
            IN IF r.outcome = "ok"
               THEN [r EXCEPT !.token = r.ret, !.checked = tok1]
               ELSE [r EXCEPT !.token = None, !.outcome = "ValueError", !.checked = tok1]
       ELSE Effect(tok1, file, "ok", tok1, FALSE, 0, 0, 0, FALSE, tok1)

\* WithingsAuth.is_authenticated: get_token's effects, True unless ValueError;
\* every exception get_token ends with here is a ValueError (UnicodeDecodeError
\* is a subclass of it)
is_authenticated(tok, file, t, env) ==
    LET r == get_token(tok, file, t, env)
    IN [r EXCEPT !.ret = IF r.outcome = "ok" THEN Some(TRUE) ELSE Some(FALSE),
                 !.outcome = "ok"]

\* WithingsAuth._extract_token_info / _exchange_auth_code on the answer of the
\* token endpoint: None when the request raises, else [status, json, error,
\* tok] where json tells whether the body parses, error whether it carries an
\* "error" key and tok is the dict found in it.  response.status_code is
\* logged and otherwise not looked at.
exchange_auth_code(answer) ==
    IF answer = None THEN None
    ELSE IF ~answer[1].json THEN None
    ELSE IF answer[1].error THEN None
    ELSE IF answer[1].tok.access_token = None THEN None
    ELSE Some(answer[1].tok)

\* an authenticate that goes to the browser without trying the stored token
authenticate_without_refresh(tok, file, t, env) ==
    LET loaded == load_token(file)
        got == exchange_auth_code(env.exchange)
    IN IF load_token_raises(file)
       THEN Effect(tok, file, "UnicodeDecodeError", None, FALSE, 0, 0, 0, FALSE, None)
       ELSE IF env.callback = "timeout"
       THEN Effect(loaded, file, "TimeoutError", None, FALSE, 0, 0, 0, TRUE, None)
       ELSE IF got = None
       THEN Effect(loaded, file, "error", None, FALSE, 1, 0, 0, TRUE, None)
       ELSE LET new == AddExpiresAt(got[1], t)
            IN Effect(Some(new), save_token(file, new, env.save_ok),
                      IF env.save_ok THEN "ok" ELSE "error",
                      IF env.save_ok THEN Some(new) ELSE None,
                      FALSE, 1, 1, 0, TRUE, None)

\* WithingsAuth.authenticate.  env.callback is what _start_local_server ends
\* with ("code" or "timeout"), env.exchange the answer to the code exchange.
authenticate(tok, file, t, env) ==
    LET loaded == load_token(file)
        r == refresh_token(loaded, file, t, env)
    IN IF load_token_raises(file)
       THEN Effect(tok, file, "UnicodeDecodeError", None, FALSE, 0, 0, 0, FALSE, None)
       ELSE IF Truthy(loaded) /\ r.outcome = "ok"
       THEN r
       ELSE LET tok1 == IF Truthy(loaded) THEN r.token ELSE loaded
                file1 == IF Truthy(loaded) THEN clear_token(r.file) ELSE file
                net1 == IF Truthy(loaded) THEN r.net ELSE 0
                saves1 == IF Truthy(loaded) THEN r.saves ELSE 0
                clears1 == IF Truthy(loaded) THEN r.clears + 1 ELSE 0
                got == exchange_auth_code(env.exchange)
            IN IF env.callback = "timeout"
               THEN Effect(tok1, file1, "TimeoutError", None, Truthy(loaded),
                           net1, saves1, clears1, TRUE, None)
               ELSE IF got = None
               THEN Effect(tok1, file1, "error", None, Truthy(loaded),
                           net1 + 1, saves1, clears1, TRUE, None)
               ELSE LET new == AddExpiresAt(got[1], t)
                    IN Effect(Some(new), save_token(file1, new, env.save_ok),
                              IF env.save_ok THEN "ok" ELSE "error",
                              IF env.save_ok THEN Some(new) ELSE None,
                              Truthy(loaded), net1 + 1, saves1 + 1, clears1, TRUE, None)

\* ------------------------------------------------------------------ state
VARIABLES
    csv,        \* the store file: [exists, rows]; rows are the lines after the header
    token,      \* WithingsAuth._token: None or a token dict
    tokenFile,  \* the file of TokenStorage
    now,        \* time.time()
    auth,       \* what the most recent WithingsAuth call did
    last,       \* what the most recent import call did
    step,       \* flips at every call, so that a repeated call is a step
    srv,        \* the run of WithingsAuth._start_local_server, see ServerRecord
    calc,       \* the most recent call of a function used on its own: [fn, ...]
    gui         \* the Api object of the GUI and the unified file, see ApiRecord

vars == <<csv, token, tokenFile, now, auth, last, step, srv, calc, gui>>

\* no function was called on its own yet
NoCalc == [fn |-> "none"]

NoFileCsv == [exists |-> FALSE, rows |-> <<>>]

\* The Api object and its unified file:
\*   client   Api.withings_auth is set (the credentials were configured)
\*   unified  raw_data_this_app.csv: [exists, rows], as the store file
\*   call     what the most recent Api call did: [fn, ...]
ApiRecord(client, unified, call) == [client |-> client, unified |-> unified, call |-> call]
NoApiCall ==
    [fn |-> "none", found |-> NoFileCsv, found_unified |-> NoFileCsv, authenticated |-> None,
     result |-> [success |-> FALSE, message |-> [text |-> "", n |-> None, raw |-> None],
                 count |-> None, total_unified |-> None],
     start_date |-> None, requests |-> 0, added |-> None]
\* no Api object is in play
NoApi == ApiRecord(FALSE, NoFileCsv, NoApiCall)

\* A run of _start_local_server:
\*   pc         "idle" not started, "listening" in httpd.handle_request(),
\*              "waiting" in the while loop, "returned" / "raised" ended
\*   pending    the requests that reached the socket and were not served
\*   arrived    how many requests reached the socket
\*   served     how many requests handle_request served
\*   writes     how many times handle_auth_code assigned auth_code
\*   reads      how many times the while loop read auth_code
\*   auth_code  the nonlocal auth_code
\*   elapsed    whole seconds of time.time() - start_time
ServerRecord(pc, pending, arrived, served, writes, reads, auth_code, elapsed) ==
    [pc |-> pc, pending |-> pending, arrived |-> arrived, served |-> served,
     writes |-> writes, reads |-> reads, auth_code |-> auth_code, elapsed |-> elapsed]

NoServer == ServerRecord("idle", <<>>, 0, 0, 0, 0, None, 0)

\* the WithingsAuth call record: held tells whether _token was set when the
\* call started, exchange is the answer the call got to its code exchange
\* (None when it made none), the other fields are the call's Effect
AuthRecord(op, held, e, exchange) ==
    [op |-> op, held |-> held, outcome |-> e.outcome, ret |-> e.ret, refresh |-> e.refresh,
     net |-> e.net, saves |-> e.saves, clears |-> e.clears, browser |-> e.browser,
     checked |-> e.checked, exchange |-> exchange]

NoAuthCall ==
    AuthRecord("none", FALSE, Effect(None, NoFile, "ok", None, FALSE, 0, 0, 0, FALSE, None),
               None)

\* the import call record: found is the store the call started on, resp the
\* list of measure groups the vendor answered with (None when the request
\* raised or was not made), status the HTTP status of the first answer (0 when
\* no request went out), requests the number of requests sent
ImportRecord(op, outcome, ret, found, resp, status, requests) ==
    [op |-> op, outcome |-> outcome, ret |-> ret, found |-> found, resp |-> resp,
     status |-> status, requests |-> requests]

NoImportCall == ImportRecord("none", "ok", None, NoFileCsv, None, 0, 0)

\* ------------------------------------------------------------ sample inputs
\* measure lists of a group: type codes 1 weight, 5 fat-free mass, 88 bone
\* mass, 8 fat mass; 86.53 kg as 8653e-2 and 86.536 kg as 86536e-3
MeasA == << [type |-> 1, value |-> 8653, unit |-> -2],
            [type |-> 5, value |-> 7519, unit |-> -2],
            [type |-> 88, value |-> 367, unit |-> -2] >>
MeasB == << [type |-> 1, value |-> 86536, unit |-> -3],
            [type |-> 8, value |-> 1326, unit |-> -2] >>

\* the measure groups the vendor can answer with: two of one date that carry
\* different measures, and one of another date
Groups == {[date |-> 1, measures |-> MeasA],
           [date |-> 1, measures |-> MeasB],
           [date |-> 2, measures |-> MeasA]}

\* response["body"]["measuregrps"]
Responses == UNION {[1..n -> Groups] : n \in 0..MaxGroups}

\* lines of a store found on disk: a full line, a line with too few fields,
\* a line whose date does not parse
OkRow(t) == [date |-> Some(t), cells |-> <<Some(7550), Some(1520), None, None, None>>]
ShortRow(t) == [date |-> Some(t), cells |-> <<Some(7550)>>]
BadDateRow == [date |-> None, cells |-> <<Some(7550), None, None, None, None>>]
SampleRows == {OkRow(t) : t \in Dates} \cup {ShortRow(1), BadDateRow}

\* the stores an import can find: no file, or a file of at most MaxRows lines
\* in any order, no two of them with the same date
FoundStores ==
    {NoFileCsv} \cup
    {[exists |-> TRUE, rows |-> rs] :
        rs \in {r \in UNION {[1..n -> SampleRows] : n \in 0..MaxRows} :
                  \A i, j \in 1..Len(r) :
                     (i # j /\ r[i].date # None) => r[i].date # r[j].date}}

\* tokens the vendor hands out
ValidForever == TokenDict(Some(1), Some(1), None, None)

\* the answers of the token endpoint and of the file system to one call
Env(refresh, save_ok, callback, exchange) ==
    [refresh |-> refresh, save_ok |-> save_ok, callback |-> callback, exchange |-> exchange]
NoEnv == Env(None, TRUE, "timeout", None)

\* --------------------------------------------------------- import operations
\* WithingsSource._make_request up to the parsed response: the effect of
\* get_token, and whether the request goes out with a usable access token
make_request_auth(tok, file, t, env) ==
    LET g == get_token(tok, file, t, env)
    IN IF g.outcome = "ok" /\ g.ret[1].access_token = None
       THEN [g EXCEPT !.outcome = "ValueError", !.ret = None]
       ELSE g

\* the vendor's answer to one measurement request: the HTTP status and, when
\* the body parses as JSON, the measure groups in it (None: not valid JSON)
Reply(status, body) == [status |-> status, body |-> body]
Unauthorized == Reply(401, None)
Replies ==
    {Unauthorized, Reply(500, None), Reply(200, None)}
        \cup {Reply(200, Some(r)) : r \in Responses}
\* what the vendor would answer to a further request after a 401
RetryReplies == {Unauthorized, Reply(200, Some(<<>>)), Reply(200, Some(<<[date |-> 1, measures |-> MeasA]>>))}

\* a fetcher that sends the request once more after a 401
make_request_retrying(reply, again) ==
    IF reply.status = 401
    THEN [requests |-> 2, status |-> reply.status,
          answer |-> IF again.status = 200 THEN again.body ELSE None]
    ELSE [requests |-> 1, status |-> reply.status,
          answer |-> IF reply.status = 200 THEN reply.body ELSE None]

\* WithingsSource._make_request from requests.post on: one request;
\* raise_for_status raises on 401 and 500, response.json() on an invalid body
\* (answer None); again is what a further request would get, never sent
make_request(reply, again) ==
    [requests |-> 1, status |-> reply.status,
     answer |-> IF reply.status = 200 THEN reply.body ELSE None]

\* an import of everything that leaves the store alone when nothing came
ImportAllSkippingEmpty(file, measurements_by_timestamp) ==
    IF DOMAIN measurements_by_timestamp = {}
    THEN [csv |-> file, ret |-> 0, fetched |-> measurements_by_timestamp]
    ELSE [csv |-> [exists |-> TRUE, rows |-> write_all_data_to_csv(measurements_by_timestamp)],
          ret |-> Cardinality(DOMAIN measurements_by_timestamp),
          fetched |-> measurements_by_timestamp]

\* WithingsSource.import_all_data_to_csv once the measurements are processed
ImportAllOf(file, measurements_by_timestamp) ==
    [csv |-> [exists |-> TRUE, rows |-> write_all_data_to_csv(measurements_by_timestamp)],
     ret |-> Cardinality(DOMAIN measurements_by_timestamp),
     fetched |-> measurements_by_timestamp]

\* WithingsSource.import_all_data_to_csv on the parsed response
import_all_result(file, response) ==
    ImportAllOf(file, apply_muscle_mass_correction(process_api_measurements(response)))

\* WithingsSource._fetch_measurements_from_api on the parsed response
fetch_measurements_from_api(response) ==
    apply_muscle_mass_correction_for_incremental(
        process_api_measurements_for_incremental(response))

\* an import that appends the fetched rows to the file instead of merging
ImportIncrementalAppend(file, new_measurements) ==
    [csv |-> [exists |-> TRUE,
              rows |-> file.rows \o write_measurements_to_csv(new_measurements)],
     ret |-> Cardinality(DOMAIN new_measurements),
     fetched |-> new_measurements]

\* an incremental import that rewrites the store even when nothing was fetched
ImportIncrementalRewriting(file, new_measurements) ==
    [csv |-> [exists |-> TRUE,
              rows |-> write_measurements_to_csv(
                          merge_with_existing_data(file, new_measurements))],
     ret |-> Cardinality(DOMAIN new_measurements),
     fetched |-> new_measurements]

\* WithingsSource.import_incremental_data_to_csv once the response is processed
ImportIncrementalOf(file, new_measurements) ==
    IF DOMAIN new_measurements = {}
    THEN [csv |-> file, ret |-> 0, fetched |-> new_measurements]
    ELSE [csv |-> [exists |-> TRUE,
                   rows |-> write_measurements_to_csv(
                               merge_with_existing_data(file, new_measurements))],
          ret |-> Cardinality(DOMAIN new_measurements),
          fetched |-> new_measurements]

\* WithingsSource.import_incremental_data_to_csv on the parsed response
import_incremental_result(file, response) ==
    ImportIncrementalOf(file, fetch_measurements_from_api(response))

\* the environments get_token can consult from this state: the token endpoint
\* is only asked when there is a token and it is due for a refresh
RefreshAnswers == {None, Some(ValidForever)}
AuthEnvs ==
    IF /\ Truthy(IF Truthy(token) THEN token ELSE load_token(tokenFile))
       /\ is_token_expired(IF Truthy(token) THEN token ELSE load_token(tokenFile), now)
    THEN {Env(r, s, "timeout", None) : r \in RefreshAnswers, s \in BOOLEAN}
    ELSE {NoEnv}

\* an import call: get_token, then the request when a usable token came back;
\* the call raises when get_token or the request raises
Import(op, reply, again, env) ==
    \E g \in {make_request_auth(token, tokenFile, now, env)} :
    \E m \in {make_request(reply, again)} :
       /\ token' = g.token
       /\ tokenFile' = g.file
       /\ auth' = AuthRecord("get_token", Truthy(token), g, None)
       /\ step' = 1 - step
       /\ now' = now
       /\ srv' = srv
       /\ calc' = calc
       /\ gui' = gui
       /\ IF g.outcome # "ok"
          THEN /\ csv' = csv
               /\ last' = ImportRecord(op, "raise", None, csv, None, 0, 0)
          ELSE IF m.answer = None
          THEN /\ csv' = csv
               /\ last' = ImportRecord(op, "raise", None, csv, None, m.status, m.requests)
          ELSE \E res \in {IF op = "import_all"
                           THEN import_all_result(csv, m.answer[1])
                           ELSE import_incremental_result(csv, m.answer[1])} :
               /\ csv' = res.csv
               /\ last' = ImportRecord(op, "ok", Some(res.ret), csv, m.answer,
                                        m.status, m.requests)

\* the answers an import call can meet: a further answer only matters after 401
ImportInputs ==
    {<<r, Unauthorized>> : r \in Replies} \cup {<<Unauthorized, a>> : a \in RetryReplies}

import_all_data_to_csv ==
    \E i \in ImportInputs : \E env \in AuthEnvs :
        Import("import_all", i[1], i[2], env)

\* start_date only goes into the request; the groups the vendor answers with
\* are not assumed to respect it
import_incremental_data_to_csv ==
    \E i \in ImportInputs : \E env \in AuthEnvs :
        Import("import_incremental", i[1], i[2], env)

\* -------------------------------------------------------- the import engine
\* The engine with a session that either holds a token that never expires or
\* has none, started on any store it can find.
Init ==
    /\ csv \in FoundStores
    /\ token = None
    /\ tokenFile \in {NoFile, FileOf(ValidForever)}
    /\ now = 0
    /\ auth = NoAuthCall
    /\ last = NoImportCall
    /\ step = 0
    /\ srv = NoServer
    /\ calc = NoCalc
    /\ gui = NoApi

Next == import_all_data_to_csv \/ import_incremental_data_to_csv

Spec == Init /\ [][Next]_vars

\* the same engine started with no store file
InitFresh == Init /\ csv = NoFileCsv

SpecFresh == InitFresh /\ [][Next]_vars

\* ------------------------------------------- properties of the import engine
\* the lines of a store, and the timestamps its lines carry
RowsOf(file) == {file.rows[i] : i \in 1..Len(file.rows)}
StoreStamps(file) == {r.date[1] : r \in {x \in RowsOf(file) : x.date # None}}
RowsAt(file, t) == {r \in RowsOf(file) : r.date = Some(t)}

\* a well-formed line: a date that parses and the five numeric fields
WellFormed(r) == r.date # None /\ Len(r.cells) >= 5

\* the timestamps of the groups of a response
GroupDates(resp) == {resp[i].date : i \in 1..Len(resp)}

\* the line written for the fetched measurement of timestamp t
FetchedRow(resp, t) ==
    [date |-> Some(t),
     cells |-> [c \in 1..5 |->
                  format_optional_metric(fetch_measurements_from_api(resp)[t], Columns[c])]]

\* newest first, no two lines of the same timestamp
StrictlyDescending(rows) ==
    /\ \A i \in 1..Len(rows) : rows[i].date # None
    /\ \A i, j \in 1..Len(rows) : i < j => rows[i].date[1] > rows[j].date[1]

\* this step is a call of op that returned
Returned(op) == step' # step /\ last'.op = op /\ last'.outcome = "ok"

\* C1: calling import_incremental_data_to_csv twice in a row on the same store
\* with the same non-empty vendor response, the second call returns 0 and
\* leaves the rows of the store as the first call left them.
C1_SecondImportReturnsZero ==
    [][(/\ last.op = "import_incremental" /\ last.outcome = "ok"
        /\ Returned("import_incremental")
        /\ last'.resp = last.resp /\ last.resp # Some(<<>>))
       => (last'.ret = Some(0) /\ csv'.rows = csv.rows)]_vars

\* C2: import_incremental_data_to_csv returns the number of fetched timestamps
\* that no line of the store it started on already had.
C2_ReturnsNewlyAdded ==
    [][Returned("import_incremental")
       => last'.ret = Some(Cardinality(GroupDates(last'.resp[1]) \ StoreStamps(csv)))]_vars

\* C3: for every fetched timestamp, if a line of the store carries it that
\* line is kept as it was and the fetched values are ignored, and if no line
\* carries it the fetched record is added.
C3_DedupRule ==
    [][Returned("import_incremental")
       => \A t \in GroupDates(last'.resp[1]) :
             IF t \in StoreStamps(csv)
             THEN RowsAt(csv', t) = RowsAt(csv, t)
             ELSE RowsAt(csv', t) = {FetchedRow(last'.resp[1], t)}]_vars

\* C4: whatever imports were made since the store was absent, no two lines of
\* the store carry the same timestamp.
C4_NoDuplicateTimestamps ==
    \A i, j \in 1..Len(csv.rows) :
        i # j => (csv.rows[i].date # None /\ csv.rows[i].date # csv.rows[j].date)

\* an incremental import whose response names one timestamp twice, made on a
\* store that already had a line, has left two lines
C4_Witness ==
    /\ last.op = "import_incremental" /\ last.outcome = "ok"
    /\ Len(last.found.rows) >= 1
    /\ Len(last.resp[1]) = 2 /\ last.resp[1][1].date = last.resp[1][2].date
    /\ last.resp[1][1].date \in StoreStamps(last.found)
    /\ Len(csv.rows) = 2

\* C5: whenever an import has written the store, its lines are strictly
\* descending by timestamp, newest first, whatever the order of the groups in
\* the response and of the lines in the store the import found.
C5_WrittenNewestFirst ==
    (/\ last.outcome = "ok"
     /\ \/ last.op = "import_all"
        \/ last.op = "import_incremental" /\ last.resp # Some(<<>>))
    => StrictlyDescending(csv.rows)

\* an incremental import found an older line below nothing newer, was answered
\* with the groups oldest first, and has left two lines
C5_Witness ==
    /\ last.op = "import_incremental" /\ last.outcome = "ok"
    /\ Len(last.resp[1]) = 2 /\ last.resp[1][1].date < last.resp[1][2].date
    /\ Len(last.found.rows) = 2 /\ ~StrictlyDescending(last.found.rows)
    /\ Len(csv.rows) = 2

\* C6 as stated: after import_all_data_to_csv or import_incremental_data_to_csv
\* on an existing store, every well-formed line the store had is still in it,
\* together with the fetched rows whose timestamps no line had.
C6_BothPreserveHistory ==
    [][((Returned("import_all") \/ Returned("import_incremental"))
        /\ csv.exists /\ (last'.op = "import_all" \/ last'.resp # Some(<<>>)))
       => /\ \A r \in RowsOf(csv) : WellFormed(r) => r \in RowsOf(csv')
          /\ \A t \in GroupDates(last'.resp[1]) \ StoreStamps(csv) :
                RowsAt(csv', t) # {}]_vars

\* C6 amended: import_incremental_data_to_csv with a non-empty fetch keeps
\* every well-formed line of the store and adds the fetched rows whose
\* timestamps no line had; import_all_data_to_csv replaces the store by the
\* fetched rows alone, so a line survives only if its timestamp is fetched.
C6_OnlyIncrementalPreserves ==
    [][/\ (Returned("import_incremental") /\ last'.resp # Some(<<>>))
          => /\ \A r \in RowsOf(csv) : WellFormed(r) => r \in RowsOf(csv')
             /\ \A t \in GroupDates(last'.resp[1]) \ StoreStamps(csv) :
                   RowsAt(csv', t) = {FetchedRow(last'.resp[1], t)}
       /\ Returned("import_all")
          => /\ csv'.exists
             /\ StoreStamps(csv') = GroupDates(last'.resp[1])
             /\ Len(csv'.rows) = Cardinality(GroupDates(last'.resp[1]))]_vars

\* import_all_data_to_csv found a store with a well-formed line and left a
\* store without that line
C6_Witness ==
    /\ last.op = "import_all" /\ last.outcome = "ok"
    /\ \E r \in RowsOf(last.found) : WellFormed(r) /\ r \notin RowsOf(csv)

\* C25: an incremental import that finds lines with an unparsable date or too
\* few fields in the store skips just those lines: the call returns, every
\* well-formed line the store had is written back as it was, and none of the
\* malformed lines is; a call only raises for want of an answer to its request.
C25_MalformedRowsSkipped ==
    [][(step' # step /\ last'.op = "import_incremental"
        /\ \E r \in RowsOf(csv) : ~WellFormed(r))
       => /\ last'.outcome = "raise" => (last'.resp = None /\ csv' = csv)
          /\ (last'.outcome = "ok" /\ last'.resp # Some(<<>>))
             => /\ \A r \in RowsOf(csv) : WellFormed(r) <=> r \in RowsOf(csv')
                /\ \A r \in RowsOf(csv') : WellFormed(r)]_vars

\* an incremental import found a malformed line above a well-formed one, was
\* answered with a measurement, and left the well-formed line in the store
C25_Witness ==
    /\ last.op = "import_incremental" /\ last.outcome = "ok" /\ last.resp # Some(<<>>)
    /\ Len(last.found.rows) = 2
    /\ ~WellFormed(last.found.rows[1]) /\ WellFormed(last.found.rows[2])
    /\ last.found.rows[2] \in RowsOf(csv)
    /\ last.found.rows[1] \notin RowsOf(csv)

\* the timestamps that have a parsable line in the file: the date parses and
\* the five numeric cells are there
ParsableStamps(file) == {r.date[1] : r \in {x \in RowsOf(file) : WellFormed(x)}}

\* C35: after import_incremental_data_to_csv returned from a fetch that
\* brought measure groups, every fetched timestamp has a line in the store
\* and every timestamp that had a parsable line before the call still has
\* one.
C35_StampsNeverLost ==
    [][(Returned("import_incremental") /\ last'.resp # Some(<<>>))
       => /\ GroupDates(last'.resp[1]) \subseteq StoreStamps(csv')
          /\ ParsableStamps(csv) \subseteq ParsableStamps(csv')]_vars

\* C36: when the vendor returns no measure group, import_incremental_data_to_csv
\* returns 0 and the store is what it was: an existing file keeps its lines,
\* malformed ones included, and a missing file is not created.
C36_EmptyFetchLeavesStore ==
    [][(Returned("import_incremental") /\ last'.resp = Some(<<>>))
       => (last'.ret = Some(0) /\ csv' = csv)]_vars

\* import_incremental_data_to_csv was answered with no measure group on a
\* store holding a line with too few fields, returned 0 and the line is there
C36_Witness ==
    /\ last.op = "import_incremental" /\ last.outcome = "ok" /\ last.resp = Some(<<>>)
    /\ last.ret = Some(0) /\ csv = last.found
    /\ \E i \in 1..Len(csv.rows) : ~WellFormed(csv.rows[i])

\* import_incremental_data_to_csv was answered with no measure group while the
\* store was missing, returned 0 and the store is still missing
C36_WitnessMissing ==
    /\ last.op = "import_incremental" /\ last.outcome = "ok" /\ last.resp = Some(<<>>)
    /\ last.ret = Some(0) /\ ~last.found.exists /\ ~csv.exists

\* this step is an import, of either kind, that started without a store file
\* and was answered with measure groups
FreshImport ==
    /\ step' # step /\ last'.outcome = "ok"
    /\ last'.op \in {"import_all", "import_incremental"}
    /\ ~csv.exists /\ last'.resp # None /\ last'.resp # Some(<<>>)

\* C37: on an absent store and for every answer with measure groups,
\* import_all_data_to_csv and import_incremental_data_to_csv leave the same
\* store (same lines, same cells, the derived muscle mass included, same
\* order) and return the same count: the store and the count a call leaves
\* are those both operations give for its answer.
C37_FreshImportsAgree ==
    [][FreshImport
       => LET all == import_all_result(csv, last'.resp[1])
              incremental == import_incremental_result(csv, last'.resp[1])
          IN /\ csv' = all.csv /\ csv' = incremental.csv
             /\ last'.ret = Some(all.ret) /\ last'.ret = Some(incremental.ret)]_vars

\* import_incremental_data_to_csv started without a store and merged two
\* groups of one timestamp into the line import_all_data_to_csv writes for
\* them: weight 86.54, fat 13.26, bone 3.67, muscle 75.19 - 3.67 = 71.52
C37_Witness ==
    /\ last.op = "import_incremental" /\ last.outcome = "ok" /\ ~last.found.exists
    /\ last.resp = Some(<<[date |-> 1, measures |-> MeasA], [date |-> 1, measures |-> MeasB]>>)
    /\ csv.rows = <<[date |-> Some(1),
                     cells |-> <<Some(8654), Some(1326), Some(367), Some(7152), None>>]>>
    /\ csv = import_all_result(last.found, last.resp[1]).csv
    /\ last.ret = Some(1)

\* C33: import_all_data_to_csv answered with no measure group returns 0 and
\* leaves a store file with no data row, whether or not there was a file;
\* answered with groups it returns the number of data rows it wrote.
C33_ImportAllWritesAlways ==
    [][Returned("import_all")
       => /\ csv'.exists
          /\ last'.ret = Some(Len(csv'.rows))
          /\ last'.resp = Some(<<>>) => (last'.ret = Some(0) /\ csv'.rows = <<>>)
          /\ last'.resp # Some(<<>>) => Len(csv'.rows) >= 1]_vars

\* import_all_data_to_csv found no store, got an empty answer, returned 0 and
\* left a store file without data rows
C33_Witness ==
    /\ last.op = "import_all" /\ last.outcome = "ok" /\ last.resp = Some(<<>>)
    /\ ~last.found.exists
    /\ last.ret = Some(0) /\ csv.exists /\ csv.rows = <<>>

\* ------------------------------------------------------ the session manager
\* the instants the clock is looked at
Instants == {0, 30, 3540, 3541}

\* the lifetimes (expires_in, seconds) the vendor grants
ExpiresIn == {30, 60, 3600}

\* the token dicts the token endpoint can answer with at time t: a relative
\* lifetime, an absolute expiry as well, or no expiry at all
VendorTokens(t) ==
    {TokenDict(Some(2), Some(1), None, Some(e)) : e \in ExpiresIn}
    \cup {TokenDict(Some(1), Some(1), None, Some(3600)),
          TokenDict(Some(2), None, None, Some(3600)),
          TokenDict(Some(2), Some(1), Some(t + 3600), Some(3600)),
          TokenDict(Some(2), Some(1), None, None)}

\* the token files a new session can find
FoundTokenFiles ==
    {NoFile, Garbage, Undecodable, FileOf(EmptyDict),
     FileOf(TokenDict(None, Some(1), None, None)),
     FileOf(ValidForever),
     FileOf(TokenDict(Some(1), Some(1), Some(30), None)),
     FileOf(TokenDict(Some(1), None, Some(30), None)),
     FileOf(TokenDict(Some(1), Some(1), Some(3600), None))}

\* the answers refresh_token can get for the token tok: none is asked for
\* when tok carries no refresh token
RefreshEnvs(tok, t) ==
    IF Truthy(tok) /\ tok[1].refresh_token # None
    THEN {Env(None, TRUE, "timeout", None)}
         \cup {Env(Some(v), s, "timeout", None) : v \in VendorTokens(t), s \in BOOLEAN}
    ELSE {NoEnv}

\* the token get_token works on: the one in memory, else the stored one
Current(tok, file) == IF Truthy(tok) THEN tok ELSE load_token(file)

GetTokenEnvs ==
    IF is_token_expired(Current(token, tokenFile), now)
    THEN RefreshEnvs(Current(token, tokenFile), now)
    ELSE {NoEnv}

\* the answers to the code exchange: the request raises, the body is not JSON,
\* it carries an error, it carries no access token, or it carries a token;
\* each comes with an HTTP status, 200 or not
ExchangeAnswer(status, json, error, tok) ==
    [status |-> status, json |-> json, error |-> error, tok |-> tok]
ExchangeAnswers(t) ==
    {None, Some(ExchangeAnswer(200, FALSE, FALSE, EmptyDict)),
     Some(ExchangeAnswer(200, TRUE, TRUE, EmptyDict)),
     Some(ExchangeAnswer(200, TRUE, FALSE, TokenDict(None, Some(1), None, Some(3600)))),
     Some(ExchangeAnswer(500, FALSE, FALSE, EmptyDict)),
     Some(ExchangeAnswer(400, TRUE, TRUE, EmptyDict)),
     Some(ExchangeAnswer(500, TRUE, FALSE, TokenDict(Some(2), Some(1), None, Some(3600))))}
    \cup {Some(ExchangeAnswer(200, TRUE, FALSE, v)) : v \in VendorTokens(t)}

\* the environments authenticate can consult: the interactive part is only
\* reached when the refresh of the stored token does not succeed
AuthenticateEnvs ==
    UNION {IF e.refresh # None /\ e.save_ok
           THEN {e}
           ELSE {Env(e.refresh, s, "timeout", None) : s \in {e.save_ok}}
                \cup {Env(e.refresh, s, "code", x) :
                        s \in IF e.refresh = None THEN BOOLEAN ELSE {e.save_ok},
                        x \in ExchangeAnswers(now)} :
           e \in RefreshEnvs(load_token(tokenFile), now)}

AuthCall(op, e, exchange) ==
    /\ token' = e.token
    /\ tokenFile' = e.file
    /\ auth' = AuthRecord(op, Truthy(token), e, exchange)
    /\ step' = 1 - step
    /\ UNCHANGED <<csv, now, last, srv, calc, gui>>

Call_get_token ==
    \E env \in GetTokenEnvs : AuthCall("get_token", get_token(token, tokenFile, now, env), None)

Call_is_authenticated ==
    \E env \in GetTokenEnvs :
        AuthCall("is_authenticated", is_authenticated(token, tokenFile, now, env), None)

Call_refresh_token ==
    \E env \in RefreshEnvs(token, now) :
        AuthCall("refresh_token", refresh_token(token, tokenFile, now, env), None)

Call_authenticate ==
    \E env \in AuthenticateEnvs :
        \E e \in {authenticate(token, tokenFile, now, env)} :
            AuthCall("authenticate", e,
                     IF e.browser /\ env.callback = "code" THEN Some(env.exchange) ELSE None)

\* time passes between calls
Tick ==
    /\ \E t \in Instants : t > now /\ now' = t
    /\ UNCHANGED <<csv, token, tokenFile, auth, last, step, srv, calc, gui>>

InitAuth ==
    /\ csv = NoFileCsv
    /\ token = None
    /\ tokenFile \in FoundTokenFiles
    /\ now = 0
    /\ auth = NoAuthCall
    /\ last = NoImportCall
    /\ step = 0
    /\ srv = NoServer
    /\ calc = NoCalc
    /\ gui = NoApi

NextAuth ==
    \/ Call_get_token
    \/ Call_is_authenticated
    \/ Call_refresh_token
    \/ Call_authenticate
    \/ Tick

SpecAuth == InitAuth /\ [][NextAuth]_vars

\* ------------------------------------------ properties of the session manager
\* the token a file holds, if it holds a non-empty dict
StoredToken(file) ==
    IF file.kind = "dict" /\ file.tok # EmptyDict THEN Some(file.tok) ELSE None

\* the slot _token is Unset: None or an empty dict
Unset == token = None \/ token = Some(EmptyDict)

\* the token a get_token call has to judge: the held one, else the stored one
InUse == IF Unset THEN StoredToken(tokenFile) ELSE token

\* tok expires within 60 seconds of t, or has expired
Due(tok, t) == tok[1].expires_at # None /\ t > tok[1].expires_at[1] - 60

\* the exceptions a caller catches with "except ValueError": UnicodeDecodeError
\* is a subclass of ValueError
IsValueError(outcome) == outcome \in {"ValueError", "UnicodeDecodeError"}

\* this step is a call of get_token
GetTokenCall == step' # step /\ auth'.op = "get_token"

C9_RefreshBoundary ==
    [][(GetTokenCall /\ InUse # None)
       => /\ auth'.refresh <=> Due(InUse, now)
          /\ InUse[1].expires_at = Some(now + 30) => auth'.refresh
          /\ InUse[1].expires_at = Some(now + 3600) => ~auth'.refresh
          /\ InUse[1].expires_at = None => ~auth'.refresh
          /\ ~auth'.refresh => auth'.outcome = "ok" /\ auth'.ret = InUse]_vars

\* get_token judged a token whose expires_at was 30 seconds ahead and called
\* refresh_token
C9_Witness ==
    /\ auth.op = "get_token" /\ auth.refresh
    /\ auth.checked # None /\ auth.checked[1].expires_at = Some(now + 30)

\* C10: a get_token call made while the held token is valid and not due makes
\* no request and no write to the store, leaves the slot as it is and returns
\* the held token, so any number of such calls in a row return the same token.
C10_ValidTokenNoNetwork ==
    [][(GetTokenCall /\ ~Unset /\ ~Due(token, now))
       => /\ auth'.outcome = "ok" /\ auth'.ret = token
          /\ auth'.net = 0 /\ auth'.saves = 0 /\ auth'.clears = 0
          /\ ~auth'.refresh /\ ~auth'.browser
          /\ token' = token /\ tokenFile' = tokenFile]_vars

\* get_token was called with a held token that expires, but not yet, and
\* returned it
C10_Witness ==
    /\ auth.op = "get_token" /\ auth.held /\ auth.outcome = "ok"
    /\ ~auth.refresh /\ auth.ret = token
    /\ token[1].expires_at # None /\ ~Due(token, now)

\* C11 as stated: every token get_token returns has no expires_at or at least
\* 60 seconds left, a token it just obtained by a refresh included; otherwise
\* get_token fails with ValueError.
C11_ReturnedTokenUsable ==
    [][GetTokenCall
       => IF auth'.outcome = "ok"
          THEN auth'.ret # None /\ ~Due(auth'.ret, now)
          ELSE IsValueError(auth'.outcome)]_vars

\* C11 amended: a token get_token returns without a refresh has no expires_at
\* or at least 60 seconds left; a token it just obtained by a refresh is
\* returned as the vendor issued it (expires_at added from expires_in), with
\* no look at its lifetime; otherwise get_token fails with a ValueError.
C11_UsableUnlessJustRefreshed ==
    [][GetTokenCall
       => IF auth'.outcome = "ok"
          THEN /\ auth'.ret # None
               /\ ~auth'.refresh => ~Due(auth'.ret, now)
               /\ auth'.refresh
                     => \E v \in VendorTokens(now) : auth'.ret = Some(AddExpiresAt(v, now))
          ELSE IsValueError(auth'.outcome)]_vars

\* get_token refreshed a token and returned one with less than 60 seconds left
C11_Witness ==
    /\ auth.op = "get_token" /\ auth.outcome = "ok" /\ auth.refresh
    /\ auth.ret # None /\ Due(auth.ret, now)

\* C12: when the record the slot holds, or else the store holds, lacks
\* access_token, get_token does not return a record without access_token and
\* is_authenticated does not report True.
C12_NoAccessTokenNeverUsable ==
    [][(step' # step /\ InUse # None /\ InUse[1].access_token = None)
       => /\ auth'.op = "get_token"
                => ~(auth'.outcome = "ok" /\ auth'.ret[1].access_token = None)
          /\ auth'.op = "is_authenticated" => auth'.ret # Some(TRUE)]_vars

\* C13: whenever refresh_token fails, for want of a refresh token, on a failed
\* request or on a failed save, it raises and the store holds no token
\* afterwards.
C13_RefreshFailureClearsStore ==
    [][(step' # step /\ auth'.op = "refresh_token" /\ auth'.outcome # "ok")
       => (auth'.ret = None /\ StoredToken(tokenFile') = None)]_vars

\* C14: when authenticate fails with TimeoutError, the slot and the store are
\* what they were before the call.
C14_TimeoutMutatesNothing ==
    [][(step' # step /\ auth'.op = "authenticate" /\ auth'.outcome = "TimeoutError")
       => (token' = token /\ tokenFile' = tokenFile)]_vars

\* an answer to the code exchange that is no grant: a status other than 200,
\* a body that is not JSON, an error, or no access_token
NoGrant(answer) ==
    answer # None /\ (\/ answer[1].status # 200 \/ ~answer[1].json
                      \/ answer[1].error \/ answer[1].tok.access_token = None)

\* C15: when the token endpoint answers the code exchange of authenticate
\* with a status other than 200, a body that is not JSON, an error or no
\* access_token, authenticate fails and writes no token to the store.
C15_BadExchangeFails ==
    [][(step' # step /\ auth'.op = "authenticate"
        /\ auth'.exchange # None /\ NoGrant(auth'.exchange[1]))
       => (auth'.outcome = "error" /\ auth'.ret = None
           /\ tokenFile' \in {tokenFile, NoFile})]_vars

\* the slot _token is unset or holds the record of the store
SlotAgreesWithStore ==
    \/ token = None \/ token = Some(EmptyDict)
    \/ (tokenFile.kind = "dict" /\ token = Some(tokenFile.tok))

\* C34: whenever authenticate, refresh_token or get_token has returned or
\* raised, the slot _token is unset or equal to the record held by the store,
\* so no token cleared from the store stays in the session.
C34_SlotAgreesWithStore ==
    auth.op \in {"authenticate", "refresh_token", "get_token"} => SlotAgreesWithStore

\* this step is an authenticate or refresh_token call that returned a token
Granted ==
    step' # step /\ auth'.op \in {"authenticate", "refresh_token"} /\ auth'.outcome = "ok"

\* the returned record is the slot and the content of the store
SlotAndStoreHold(ret) == token' = ret /\ tokenFile' = [kind |-> "dict", tok |-> ret[1]]

\* C16 as stated: after a successful authenticate or refresh_token the token
\* carries an absolute expires_at, and it is both the slot and the content of
\* the store.
C16_AlwaysAbsoluteExpiry ==
    [][Granted
       => (auth'.ret # None /\ auth'.ret[1].expires_at # None
           /\ SlotAndStoreHold(auth'.ret))]_vars

\* C16 amended: after a successful authenticate or refresh_token the token is
\* the vendor's record, with expires_at = now + expires_in added when the
\* vendor supplied expires_in and no expires_at, and left as supplied
\* otherwise, so a record supplied with neither has no expires_at; it is both
\* the slot and the content of the store.
C16_ExpiryFromLifetime ==
    [][Granted
       => /\ auth'.ret # None
          /\ \E v \in VendorTokens(now) :
                auth'.ret[1] =
                   IF v.expires_at = None /\ v.expires_in # None
                   THEN [v EXCEPT !.expires_at = Some(now + v.expires_in[1])]
                   ELSE v
          /\ auth'.ret[1].expires_in # None => auth'.ret[1].expires_at # None
          /\ SlotAndStoreHold(auth'.ret)]_vars

\* authenticate went through the code exchange and returned a token whose
\* expires_at it computed from the lifetime of 3600 seconds
C16_Witness ==
    /\ auth.op = "authenticate" /\ auth.outcome = "ok" /\ auth.exchange # None
    /\ auth.exchange[1][1].tok.expires_at = None
    /\ auth.ret[1].expires_in = Some(3600) /\ auth.ret[1].expires_at = Some(now + 3600)
    /\ token = auth.ret /\ StoredToken(tokenFile) = auth.ret

\* this step is an authenticate call
AuthenticateCall == step' # step /\ auth'.op = "authenticate"

\* the refresh that authenticate attempted succeeded: the call tried it and
\* never went through the clear_token() of its failure path
RefreshSucceeded(call) == call.refresh /\ call.clears = 0

\* C39: authenticate with a token in the store attempts a refresh; when the
\* refresh succeeds it returns the refreshed token, now the slot and the
\* store content, without the browser or the listener; the interactive flow
\* runs only when no token is stored or the refresh failed.
C39_RefreshBeforeBrowser ==
    [][AuthenticateCall
       => /\ StoredToken(tokenFile) # None => auth'.refresh
          /\ RefreshSucceeded(auth')
               => /\ ~auth'.browser /\ auth'.exchange = None
                  /\ auth'.outcome = "ok" /\ auth'.ret # None
                  /\ SlotAndStoreHold(auth'.ret)
          /\ auth'.browser
               => (StoredToken(tokenFile) = None \/ ~RefreshSucceeded(auth'))]_vars

\* authenticate found a stored token, refreshed it and returned the refreshed
\* token without the browser
C39_Witness ==
    /\ auth.op = "authenticate" /\ auth.refresh /\ auth.clears = 0
    /\ ~auth.browser /\ auth.outcome = "ok" /\ auth.ret # None
    /\ token = auth.ret /\ tokenFile = [kind |-> "dict", tok |-> auth.ret[1]]

\* ------------------------------------------------------ the callback receiver
\* the window of the while loop of _start_local_server, in seconds
Window == 300

\* the requests that can reach the socket: the redirect carrying ?code=...,
\* a request whose code starts with an encoded '#' (parse_qs decodes it and
\* handle_auth_code keeps the empty part before it), or any other request
\* (no code parameter, an error redirect, a favicon)
Requests == {"code", "blank", "other"}

\* what handle_auth_code leaves in auth_code for a request, called by do_GET
\* only when the request has a code parameter
CleanCode(req) == IF req = "code" THEN "c" ELSE ""
HasCode(req) == req \in {"code", "blank"}

\* a receiver that goes on listening after a request, as serve_forever would
handle_request_and_listen(s, req) ==
    [s EXCEPT !.pending = Tail(s.pending),
              !.served = s.served + 1,
              !.writes = IF HasCode(req) THEN s.writes + 1 ELSE s.writes,
              !.auth_code = IF HasCode(req) THEN Some(CleanCode(req)) ELSE s.auth_code]

\* httpd.handle_request() once a request is there: CallbackHandler.do_GET runs
\* to its end, calling handle_auth_code when the request carries a code, and
\* the caller goes on to the while loop with start_time = time.time()
handle_request(s, req) ==
    [s EXCEPT !.pc = "waiting",
              !.pending = Tail(s.pending),
              !.served = s.served + 1,
              !.writes = IF HasCode(req) THEN s.writes + 1 ELSE s.writes,
              !.auth_code = IF HasCode(req) THEN Some(CleanCode(req)) ELSE s.auth_code,
              !.elapsed = 0]

\* one evaluation of the while condition and, inside the window, of the body
wait_loop(s) ==
    IF s.elapsed < Window
    THEN IF s.auth_code # None /\ s.auth_code[1] # ""
         THEN [s EXCEPT !.pc = "returned", !.reads = s.reads + 1]
         ELSE [s EXCEPT !.reads = s.reads + 1, !.elapsed = s.elapsed + 1]
    ELSE [s EXCEPT !.pc = "raised"]

ServerStep(s) ==
    srv' = s /\ UNCHANGED <<csv, token, tokenFile, now, auth, last, step, calc, gui>>

\* authenticate calls _start_local_server: auth_code = None, the socket is bound
StartServer ==
    /\ srv.pc \in {"idle", "returned", "raised"}
    /\ ServerStep(ServerRecord("listening", <<>>, 0, 0, 0, 0, None, 0))

\* a request reaches the socket while it is bound; at most MaxRequests do
RequestArrives ==
    /\ srv.pc \in {"listening", "waiting"}
    /\ srv.arrived < MaxRequests
    /\ \E req \in Requests :
          ServerStep([srv EXCEPT !.pending = Append(srv.pending, req),
                                 !.arrived = srv.arrived + 1])

\* handle_request blocks until a request is there, then serves it
HandleRequest ==
    /\ srv.pc = "listening"
    /\ srv.pending # <<>>
    /\ ServerStep(handle_request(srv, Head(srv.pending)))

WaitLoop ==
    /\ srv.pc = "waiting"
    /\ ServerStep(wait_loop(srv))

InitServer == InitAuth

\* the steps of the program, and the steps of its environment
ServerRuns == StartServer \/ HandleRequest \/ WaitLoop
NextServer == ServerRuns \/ RequestArrives

SpecServer == InitServer /\ [][NextServer]_vars

\* the program is scheduled whenever it can take a step; nothing obliges a
\* request to arrive
SpecServerLive == SpecServer /\ WF_vars(ServerRuns)

\* ------------------------------------------- properties of the callback receiver
Ended == srv.pc \in {"returned", "raised"}

\* C17: a started callback receiver always ends, by returning a code or by
\* raising TimeoutError; in particular it raises when no request arrives within
\* the window.
C17_ReceiverAlwaysEnds == (srv.pc = "listening") ~> Ended

\* C18: in one run of the callback receiver at most one request is served,
\* however many arrive; auth_code is assigned at most once and only by a served
\* request; and the caller reads auth_code only once that request is served
\* and the receiver has stopped serving.
C18_SingleRequestHandoff ==
    /\ srv.served <= 1
    /\ srv.writes <= srv.served
    /\ (srv.auth_code # None) = (srv.writes = 1)
    /\ srv.reads > 0 => srv.served = 1 /\ srv.pc # "listening"
    /\ srv.pc \in {"waiting", "returned", "raised"} => srv.served = 1

\* two requests arrived, the first with a code; one was served, the code was
\* written once, read, and returned while the second request is still unserved
C18_Witness ==
    /\ srv.pc = "returned"
    /\ srv.arrived = 2
    /\ Len(srv.pending) = 1
    /\ srv.served = 1
    /\ srv.writes = 1
    /\ srv.reads = 1

\* ------------------------------------------- properties of the measurement fetch
\* the import call just made got 401 on its measurement request
Got401 == step' # step /\ last'.status = 401

StorageCall(op, file, outcome, ret, saves, clears) ==
    /\ tokenFile' = file
    /\ auth' = AuthRecord(op, FALSE,
                          Effect(token, file, outcome, ret, FALSE, 0, saves, clears, FALSE, None),
                          None)
    /\ step' = 1 - step
    /\ UNCHANGED <<csv, token, now, last, srv, calc, gui>>

Call_load_token ==
    \E r \in {load_token_call(tokenFile)} :
        StorageCall("load_token", tokenFile, r.outcome, r.ret, 0, 0)

Call_clear_token ==
    \E cleared \in {clear_token(tokenFile)} :
        StorageCall("clear_token", cleared, "ok", None, 0, 1)

Call_save_token ==
    \E d \in VendorTokens(now) : \E save_ok \in BOOLEAN :
        StorageCall("save_token", save_token(tokenFile, d, save_ok),
                    IF save_ok THEN "ok" ELSE "IOError", None, 1, 0)

InitStorage == InitAuth

NextStorage == Call_load_token \/ Call_clear_token \/ Call_save_token \/ Tick

SpecStorage == InitStorage /\ [][NextStorage]_vars

\* --------------------------------------------------- properties of the token store
\* C20: load_token returns None and does not raise when there is no token file
\* or when the file does not hold a token record; clear_token does not raise,
\* leaves an empty store empty, and a load_token after it returns None.
C20_LoadAndClearNeverRaise ==
    [][/\ (step' # step /\ auth'.op = "load_token" /\ tokenFile.kind # "dict")
            => (auth'.outcome = "ok" /\ auth'.ret = None)
       /\ (step' # step /\ auth'.op = "clear_token")
            => /\ auth'.outcome = "ok"
               /\ tokenFile = NoFile => tokenFile' = NoFile
               /\ load_token_call(tokenFile') = [outcome |-> "ok", ret |-> None]]_vars

\* ------------------------------------------------- the measurement pipeline
\* The measures a group can carry: the two encodings of 86.53 kg, fat-free
\* mass with and without decimals, bone mass, fat mass, hydration, and two
\* types the mapping does not know (6 fat ratio, 76 muscle mass).
SampleMeasures ==
    {[type |-> 1, value |-> 8653, unit |-> -2],
     [type |-> 1, value |-> 86530, unit |-> -3],
     [type |-> 5, value |-> 7519, unit |-> -2],
     [type |-> 5, value |-> 7400, unit |-> -2],
     [type |-> 88, value |-> 367, unit |-> -2],
     [type |-> 8, value |-> 1326, unit |-> -2],
     [type |-> 77, value |-> 5021, unit |-> -2],
     [type |-> 6, value |-> 1532, unit |-> -2],
     [type |-> 76, value |-> 6500, unit |-> -2]}

MeasureLists == UNION {[1..n -> SampleMeasures] : n \in 0..MaxMeasures}

\* the line import_all_data_to_csv writes for a response of one group
PersistedByImportAll(measures) ==
    write_all_data_to_csv(
        apply_muscle_mass_correction(
            process_api_measurements(<<[date |-> 1, measures |-> measures]>>)))[1]

\* the line import_incremental_data_to_csv writes for a response of one group
PersistedByImportIncremental(measures) ==
    write_measurements_to_csv(
        fetch_measurements_from_api(<<[date |-> 1, measures |-> measures]>>))[1]

PureStep(c) ==
    calc' = c /\ UNCHANGED <<csv, token, tokenFile, now, auth, last, step, srv, gui>>

\* the state of a session in which no call was made, with calc = c
InitPure(c) ==
    /\ csv = NoFileCsv
    /\ token = None
    /\ tokenFile = NoFile
    /\ now = 0
    /\ auth = NoAuthCall
    /\ last = NoImportCall
    /\ step = 0
    /\ srv = NoServer
    /\ calc = c
    /\ gui = NoApi

\* a measure group of the vendor's answer, not yet imported
NoRow == [date |-> None, cells |-> <<>>]
GroupCalc(fn, measures, row) == [fn |-> fn, measures |-> measures, row |-> row]

\* the group goes through import_all_data_to_csv
Persist_import_all ==
    /\ calc.fn = "group"
    /\ \E row \in {PersistedByImportAll(calc.measures)} :
          PureStep(GroupCalc("import_all", calc.measures, row))

\* the group goes through import_incremental_data_to_csv
Persist_import_incremental ==
    /\ calc.fn = "group"
    /\ \E row \in {PersistedByImportIncremental(calc.measures)} :
          PureStep(GroupCalc("import_incremental", calc.measures, row))

InitMapping == \E measures \in MeasureLists : InitPure(GroupCalc("group", measures, NoRow))

NextMapping == Persist_import_all \/ Persist_import_incremental

SpecMapping == InitMapping /\ [][NextMapping]_vars

\* ------------------------------------- properties of the measurement pipeline
\* the quantity, in grams, of the last measure of a type in a group, if any
RECURSIVE LastOfType(_, _)
LastOfType(measures, type) ==
    IF measures = <<>> THEN None
    ELSE LET m == measures[Len(measures)]
         IN IF m.type = type THEN Some(Scale(m.value, m.unit))
            ELSE LastOfType(SubSeq(measures, 1, Len(measures) - 1), type)

Persisted == calc.fn \in {"import_all", "import_incremental"}

\* the line a group gives is the same through both imports
GroupLinesAgree ==
    Persisted => PersistedByImportAll(calc.measures) = PersistedByImportIncremental(calc.measures)

\* C21: in a persisted line the muscle mass cell is fat-free mass minus bone
\* mass when both are present and bone mass is positive, the fat-free mass
\* itself when bone mass is absent, and empty when fat-free mass is absent.
C21_MuscleMassDerived ==
    Persisted =>
        LET ffm == LastOfType(calc.measures, 5)
            bone == LastOfType(calc.measures, 88)
            muscle == calc.row.cells[4]
        IN /\ (ffm # None /\ bone # None /\ bone[1] > 0)
                => muscle = Some(Round2(ffm[1] - bone[1]))
           /\ (ffm # None /\ bone = None) => muscle = Some(Round2(ffm[1]))
           /\ ffm = None => muscle = None

\* import_all_data_to_csv persisted 75.19 kg fat-free mass and 3.67 kg bone
\* mass as 71.52 kg muscle mass and 3.67 kg bone mass
C21_Witness ==
    /\ calc.fn = "import_all"
    /\ LastOfType(calc.measures, 5) = Some(75190)
    /\ LastOfType(calc.measures, 88) = Some(3670)
    /\ calc.row.cells[4] = Some(7152)
    /\ calc.row.cells[3] = Some(367)

\* the type codes the mapping knows
MappedTypes == {1, 8, 88, 5, 77}

\* a group without its measures of unknown type
RECURSIVE OnlyMapped(_)
OnlyMapped(measures) ==
    IF measures = <<>> THEN <<>>
    ELSE (IF Head(measures).type \in MappedTypes THEN <<Head(measures)>> ELSE <<>>)
            \o OnlyMapped(Tail(measures))

\* C23: measures of a type outside 1, 8, 88, 5, 77 are discarded: the persisted
\* line is the one the group gives without them, so they add no field and
\* change none, and a group made of them alone gives a line of empty cells.
C23_UnknownTypesDiscarded ==
    Persisted =>
        /\ calc.row = IF calc.fn = "import_all"
                      THEN PersistedByImportAll(OnlyMapped(calc.measures))
                      ELSE PersistedByImportIncremental(OnlyMapped(calc.measures))
        /\ OnlyMapped(calc.measures) = <<>> => \A c \in 1..5 : calc.row.cells[c] = None

\* a group with a weight between two measures of unknown type was persisted
\* by import_all_data_to_csv with the weight as its only cell
C23_Witness ==
    /\ calc.fn = "import_all"
    /\ Len(calc.measures) = 3
    /\ calc.measures[1].type = 76 /\ calc.measures[2].type = 1 /\ calc.measures[3].type = 6
    /\ calc.row.cells = <<Some(8653), None, None, None, None>>

\* the measures of the groups of an answer that carry timestamp t, in the
\* order of the answer
RECURSIVE MeasuresAt(_, _)
MeasuresAt(resp, t) ==
    IF resp = <<>> THEN <<>>
    ELSE (IF Head(resp).date = t THEN Head(resp).measures ELSE <<>>) \o MeasuresAt(Tail(resp), t)

\* the cell of a quantity, if there is one
CellOf(quantity) == IF quantity = None THEN None ELSE Some(Round2(quantity[1]))

\* the line of timestamp t when the groups that carry it are merged: every
\* field takes the value of the last measure of its type, the muscle mass is
\* derived from the merged fat-free mass and bone mass
MergedRow(resp, t) ==
    LET ms == MeasuresAt(resp, t)
        ffm == LastOfType(ms, 5)
        bone == LastOfType(ms, 88)
    IN [date |-> Some(t),
        cells |-> <<CellOf(LastOfType(ms, 1)), CellOf(LastOfType(ms, 8)), CellOf(bone),
                    IF ffm = None \/ ffm[1] <= 0 THEN None
                    ELSE IF bone # None /\ bone[1] > 0 THEN Some(Round2(ffm[1] - bone[1]))
                    ELSE Some(Round2(ffm[1])),
                    CellOf(LastOfType(ms, 77))>>]

\* C38: the groups of one answer that share a timestamp are merged into one
\* record, fields unioned and a later group's value replacing an earlier one,
\* so import_all_data_to_csv writes one line per distinct timestamp and
\* returns their number; import_incremental_data_to_csv merges the groups
\* the same way.
C38_GroupsMergedByTimestamp ==
    [][(/\ step' # step /\ last'.outcome = "ok" /\ last'.resp # None
        /\ \/ last'.op = "import_all"
           \/ last'.op = "import_incremental" /\ ~csv.exists /\ last'.resp # Some(<<>>))
       => /\ \A t \in GroupDates(last'.resp[1]) : RowsAt(csv', t) = {MergedRow(last'.resp[1], t)}
          /\ Len(csv'.rows) = Cardinality(GroupDates(last'.resp[1]))
          /\ last'.op = "import_all"
               => last'.ret = Some(Cardinality(GroupDates(last'.resp[1])))]_vars

\* import_all_data_to_csv got two groups of one timestamp, the second
\* repeating the weight and adding the fat mass, returned 1 and wrote one
\* line with the later weight and the fields of both groups
C38_Witness ==
    /\ last.op = "import_all" /\ last.outcome = "ok"
    /\ last.resp = Some(<<[date |-> 1, measures |-> MeasA], [date |-> 1, measures |-> MeasB]>>)
    /\ last.ret = Some(1)
    /\ csv.rows = <<[date |-> Some(1),
                     cells |-> <<Some(8654), Some(1326), Some(367), Some(7152), None>>]>>

\* ------------------------------------------------------ binary64 arithmetic
\* value * (10 ** unit) is a Python float when unit is negative, and the cell
\* written is the "%.2f" format of that float.  A natural number is written
\* here as the sequence of its bits, least significant first and without
\* leading zero; a binary64 number is [m, e] for m * 2^e, where m has
\* Precision bits.
Precision == 53

RECURSIVE NatBits(_)
NatBits(n) == IF n = 0 THEN <<>> ELSE <<n % 2>> \o NatBits(n \div 2)

RECURSIVE BitsNat(_)
BitsNat(b) == IF b = <<>> THEN 0 ELSE b[1] + 2 * BitsNat(Tail(b))

\* b without the zero bits at its top
RECURSIVE Trim(_)
Trim(b) ==
    IF b = <<>> THEN <<>>
    ELSE IF b[Len(b)] = 1 THEN b
    ELSE Trim(SubSeq(b, 1, Len(b) - 1))

\* b + 1
RECURSIVE Inc(_)
Inc(b) ==
    IF b = <<>> THEN <<1>>
    ELSE IF b[1] = 0 THEN <<1>> \o Tail(b)
    ELSE <<0>> \o Inc(Tail(b))

\* b as hexadecimal digits, least significant first, and back
HexDigits(b) ==
    [i \in 1..((Len(b) + 3) \div 4) |->
        LET bit(j) == IF j <= Len(b) THEN b[j] ELSE 0
        IN bit(4 * i - 3) + 2 * bit(4 * i - 2) + 4 * bit(4 * i - 1) + 8 * bit(4 * i)]
HexBit(h, k) == IF k = 0 THEN h % 2 ELSE IF k = 1 THEN (h \div 2) % 2
                ELSE IF k = 2 THEN (h \div 4) % 2 ELSE h \div 8
BitsOfHex(l) == Trim([j \in 1..(4 * Len(l)) |-> HexBit(l[((j - 1) \div 4) + 1], (j - 1) % 4)])

RECURSIVE NatHex(_)
NatHex(n) == IF n = 0 THEN <<>> ELSE <<n % 16>> \o NatHex(n \div 16)

\* l * n + carry on hexadecimal digits, for a machine-size natural n
RECURSIVE MulHex(_, _, _)
MulHex(l, n, carry) ==
    IF l = <<>> THEN NatHex(carry)
    ELSE LET x == l[1] * n + carry
         IN <<x % 16>> \o MulHex(Tail(l), n, x \div 16)

\* b * n + carry, for a machine-size natural n
MulSmall(b, n, carry) == BitsOfHex(MulHex(HexDigits(b), n, carry))

\* b / 2^k rounded to the nearest natural, a tie going to the even one
RoundShift(b, k) ==
    IF k = 0 THEN b
    ELSE IF k > Len(b) THEN <<>>
    ELSE LET kept == SubSeq(b, k + 1, Len(b))
             sticky == \E i \in 1..(k - 1) : b[i] = 1
             up == b[k] = 1 /\ (sticky \/ (kept # <<>> /\ kept[1] = 1))
         IN IF up THEN Inc(kept) ELSE kept

\* the binary64 number nearest to b * 2^e, for b # 0
RoundDouble(b, e) ==
    LET k == Len(b) - Precision
    IN IF k <= 0
       THEN [m |-> [i \in 1..(-k) |-> 0] \o b, e |-> e + k]
       ELSE LET r == RoundShift(b, k)
            IN IF Len(r) > Precision
               THEN [m |-> Tail(r), e |-> e + k + 1]
               ELSE [m |-> r, e |-> e + k]

\* the first n hexadecimal digits of r / d after the point, most significant
\* first, followed by one digit telling whether anything is left
RECURSIVE FractionDigits(_, _, _)
FractionDigits(r, d, n) ==
    IF n = 0 THEN <<IF r = 0 THEN 0 ELSE 1>>
    ELSE <<(16 * r) \div d>> \o FractionDigits((16 * r) % d, d, n - 1)

Reverse(b) == [i \in 1..Len(b) |-> b[Len(b) + 1 - i]]

\* 10 ** unit for a negative unit down to -7: float pow, the binary64 number
\* nearest to 1 / 10^(-unit); QuotientDigits digits after the point leave more
\* than Precision bits of quotient
QuotientDigits == 24
RECURSIVE TenTo(_)
TenTo(k) == IF k = 0 THEN 1 ELSE 10 * TenTo(k - 1)
Pow10Float(unit) ==
    RoundDouble(BitsOfHex(Reverse(FractionDigits(1, TenTo(-unit), QuotientDigits))),
                -(4 * QuotientDigits + 4))

\* value * (10 ** unit) as Python computes it: an int product when unit >= 0,
\* else the float product of float(value), which is exact, and 10 ** unit
FloatScale(value, unit) ==
    IF unit >= 0 THEN RoundDouble(NatBits(value * TenTo(unit)), 0)
    ELSE LET c == Pow10Float(unit)
         IN RoundDouble(MulSmall(c.m, value, 0), c.e)

\* a format that cuts the digits after the second decimal off
FormatTruncated(x) ==
    BitsNat(SubSeq(MulSmall(x.m, 100, 0), 1 - x.e, Len(MulSmall(x.m, 100, 0))))

\* f"{float(x):.2f}" of a binary64 number below 2^52, as hundredths: the exact
\* value of x rounded to two decimals, a tie going to the even neighbour
FormatFloat(x) == BitsNat(RoundShift(MulSmall(x.m, 100, 0), -x.e))

\* ------------------------------------------------------------ unit decoding
\* Two encodings of one quantity: a = (value, unit) and the finer
\* b = (value * 10^shift, unit - shift).
SampleValues == {3, 15, 125, 367, 1326, 7519, 8653, 86535, 86536}
Units == -3..0
Encodings ==
    {[a |-> [value |-> v, unit |-> u],
      b |-> [value |-> v * TenTo(j), unit |-> u - j]] :
        v \in SampleValues, u \in Units, j \in 1..MaxShift}

ScaleCalc(fn, enc, xa, xb, cella, cellb) ==
    [fn |-> fn, a |-> enc.a, b |-> enc.b, xa |-> xa, xb |-> xb,
     cella |-> cella, cellb |-> cellb]

\* the line value = measure["value"] * (10 ** measure["unit"]) on both encodings
Decode_measure ==
    /\ calc.fn = "encodings"
    /\ \E xa \in {FloatScale(calc.a.value, calc.a.unit)} :
       \E xb \in {FloatScale(calc.b.value, calc.b.unit)} :
          PureStep(ScaleCalc("decoded", calc, Some(xa), Some(xb), None, None))

\* the two decoded values are written as cells
Format_measure ==
    /\ calc.fn = "decoded"
    /\ \E ca \in {FormatFloat(calc.xa[1])} : \E cb \in {FormatFloat(calc.xb[1])} :
          PureStep(ScaleCalc("written", calc, calc.xa, calc.xb, Some(ca), Some(cb)))

InitScaling ==
    \E enc \in Encodings : InitPure(ScaleCalc("encodings", enc, None, None, None, None))

NextScaling == Decode_measure \/ Format_measure

SpecScaling == InitScaling /\ [][NextScaling]_vars

\* ------------------------------------------------ properties of unit decoding
\* C22: two encodings of one quantity are decoded to the same stored value,
\* in memory and in the written cell.
C22_ScaleInvariant ==
    /\ calc.fn \in {"decoded", "written"} => calc.xa = calc.xb
    /\ calc.fn = "written" => calc.cella = calc.cellb

\* the quantity of the pair, in grams, and whether it lies half way between
\* two hundredths of a kilogram
Quantity == Scale(calc.a.value, calc.a.unit)
OnTie == Quantity % 10 = 5

\* C22, as the code has it: the decoded values are binary64 numbers, and the
\* two written cells are the same whenever the quantity is not half way
\* between two hundredths (then both are its rounding to two decimals) and
\* whenever both exponents are -3 or more; they never differ by more than one
\* hundredth.
C22_ScaleInvariantOffTies ==
    calc.fn = "written" =>
        /\ ~OnTie => calc.cella = Some(Round2(Quantity)) /\ calc.cellb = calc.cella
        /\ calc.b.unit >= -3 => calc.cellb = calc.cella
        /\ Abs(calc.cella[1] - calc.cellb[1]) <= 1

\* 8653e-2 and 86530e-3 were decoded to the same number and written as 86.53
C22_Witness ==
    /\ calc.fn = "written"
    /\ calc.a = [value |-> 8653, unit |-> -2] /\ calc.b = [value |-> 86530, unit |-> -3]
    /\ calc.xa = calc.xb
    /\ calc.cella = Some(8653) /\ calc.cellb = Some(8653)

\* ------------------------------------------------ writing and reloading a store
MaxRecords == 3

\* measurement records as the merge hands them to the writer, in grams: values
\* finer than 1/100 kg, a zero, absent fields
SampleRecords ==
    {[EmptyData EXCEPT !["weight_kg"] = Some(75503), !["fat_mass_kg"] = Some(15207)],
     [EmptyData EXCEPT !["weight_kg"] = Some(86530), !["bone_mass_kg"] = Some(3674),
                       !["muscle_mass_kg"] = Some(71516)],
     [EmptyData EXCEPT !["weight_kg"] = Some(0), !["hydration_kg"] = Some(50209)],
     [EmptyData EXCEPT !["fat_mass_kg"] = Some(13262)],
     EmptyData}

\* dicts of at most MaxRecords records: the keys of a dict are distinct
RecordDicts ==
    UNION {[S -> SampleRecords] : S \in SUBSET (1..MaxRecords)}

StoreCalc(fn, measurements, file, loaded) ==
    [fn |-> fn, measurements |-> measurements, file |-> file, loaded |-> loaded]

\* WithingsSource._write_measurements_to_csv on a path without a file
Write_measurements_to_csv ==
    /\ calc.fn = "records"
    /\ \E rows \in {write_measurements_to_csv(calc.measurements)} :
          PureStep(StoreCalc("written", calc.measurements,
                             [exists |-> TRUE, rows |-> rows], calc.loaded))

\* WithingsSource._load_existing_csv_data on the file just written
Load_existing_csv_data ==
    /\ calc.fn = "written"
    /\ \E loaded \in {load_existing_csv_data(calc.file)} :
          PureStep(StoreCalc("reloaded", calc.measurements, calc.file, loaded))

InitRoundTrip ==
    \E measurements \in RecordDicts :
        InitPure(StoreCalc("records", measurements, NoFileCsv, <<{}, NoMeasurements>>))

NextRoundTrip == Write_measurements_to_csv \/ Load_existing_csv_data

SpecRoundTrip == InitRoundTrip /\ [][NextRoundTrip]_vars

\* ---------------------------------------------- properties of the round trip
\* l, in grams, is v rounded to a whole number of 1/100 kg
RoundedTo2Decimals(l, v) == l % 10 = 0 /\ Abs(l - v) <= 5

\* C26: records written by _write_measurements_to_csv and reloaded by
\* _load_existing_csv_data come back as many as they were, under the same
\* timestamps, every numeric field rounded to two decimals and every absent
\* field absent.
C26_RoundTrip ==
    calc.fn = "reloaded" =>
        /\ calc.loaded[1] = DOMAIN calc.measurements
        /\ DOMAIN calc.loaded[2] = DOMAIN calc.measurements
        /\ Len(calc.file.rows) = Cardinality(DOMAIN calc.measurements)
        /\ \A t \in DOMAIN calc.measurements : \A c \in 1..5 :
              LET v == calc.measurements[t][Columns[c]]
                  l == calc.loaded[2][t][Columns[c]]
              IN IF v = None THEN l = None
                 ELSE l # None /\ RoundedTo2Decimals(l[1], v[1])

\* three records were written and reloaded: 75.503 kg came back as 75.50 kg,
\* a weight of zero as zero, and the record without any value as five
\* absent fields
C26_Witness ==
    /\ calc.fn = "reloaded"
    /\ DOMAIN calc.measurements = 1..3
    /\ calc.measurements[1]["weight_kg"] = Some(75503)
    /\ calc.loaded[2][1]["weight_kg"] = Some(75500)
    /\ calc.measurements[2]["weight_kg"] = Some(0)
    /\ calc.loaded[2][2]["weight_kg"] = Some(0)
    /\ calc.measurements[3] = EmptyData /\ calc.loaded[2][3] = EmptyData

\* ============================================================ the GUI's import
\* Dates of measurements count days from 2015-01-01.
OneDay == 1
HistoricalFloor == 0

\* Api._get_last_date_from_csv: the date of the first data line, None when
\* there is none, when it is blank or when its date does not parse
get_last_date_from_csv(file) ==
    IF Len(file.rows) = 0 THEN None ELSE file.rows[1].date

\* a start date that is the newest record's own date
determine_import_strategy_same_day(file) ==
    IF file.exists /\ get_last_date_from_csv(file) # None
    THEN get_last_date_from_csv(file)[1]
    ELSE HistoricalFloor

\* Api._determine_import_strategy: start_date
determine_import_strategy(file) ==
    IF file.exists /\ get_last_date_from_csv(file) # None
    THEN get_last_date_from_csv(file)[1] + OneDay
    ELSE HistoricalFloor

\* Api._parse_existing_app_data: app_data, the lines whose date parses, in
\* file order; existing_dates are their dates
parse_existing_app_data(rows) == SelectSeq(rows, LAMBDA r : r.date # None)
DatesOfLines(rows) == {rows[i].date[1] : i \in {j \in 1..Len(rows) : rows[j].date # None}}

\* Api._add_new_withings_data: the loop over withings_lines[1:]
RECURSIVE add_new_withings_data(_, _, _)
add_new_withings_data(withings_rows, existing_dates, app_data) ==
    IF withings_rows = <<>> THEN app_data
    ELSE LET r == Head(withings_rows)
         IN IF r.date # None /\ r.date[1] \notin existing_dates
            THEN add_new_withings_data(Tail(withings_rows), existing_dates \cup {r.date[1]},
                                       Append(app_data, r))
            ELSE add_new_withings_data(Tail(withings_rows), existing_dates, app_data)

\* app_data.sort(key=lambda x: x[0], reverse=True): stable, so lines of one
\* date keep their order
RECURSIVE InsertByDate(_, _)
InsertByDate(sorted, r) ==
    IF sorted = <<>> THEN <<r>>
    ELSE IF Head(sorted).date[1] >= r.date[1]
    THEN <<Head(sorted)>> \o InsertByDate(Tail(sorted), r)
    ELSE <<r>> \o sorted
RECURSIVE SortNewestFirst(_)
SortNewestFirst(app_data) ==
    IF app_data = <<>> THEN <<>>
    ELSE InsertByDate(SortNewestFirst(SubSeq(app_data, 1, Len(app_data) - 1)),
                      app_data[Len(app_data)])

\* Api._write_merged_data: the lines written after the header
write_merged_data(app_data) == SortNewestFirst(app_data)

TransformResult(ret, unified) == [ret |-> ret, unified |-> unified]

\* Api._create_new_unified_file: every line is copied, every line counted
create_new_unified_file(withings_rows) ==
    TransformResult(Len(withings_rows), [exists |-> TRUE, rows |-> withings_rows])

\* Api._merge_with_existing_unified_file
merge_with_existing_unified_file(app, withings_rows) ==
    LET app_data == parse_existing_app_data(app.rows)
        merged == add_new_withings_data(withings_rows, DatesOfLines(app.rows), app_data)
    IN TransformResult(Len(merged) - Len(app_data),
                       [exists |-> TRUE, rows |-> write_merged_data(merged)])

\* Api._transform_to_unified_format
transform_to_unified_format(withings, app) ==
    IF ~withings.exists THEN TransformResult(0, app)
    ELSE IF Len(withings.rows) = 0 THEN TransformResult(0, app)
    ELSE IF ~app.exists THEN create_new_unified_file(withings.rows)
    ELSE merge_with_existing_unified_file(app, withings.rows)

\* a message shown to the user: a text, the number formatted into it if any,
\* the text of the exception appended to it if any
Message(text, n, raw) == [text |-> text, n |-> n, raw |-> raw]
Plain(text) == Message(text, None, None)
EntriesAdded(n) == Message("entries added", Some(n), None)

\* a status line that reports what the vendor sent
message_by_api_count(api_count, new_entries_added) ==
    IF api_count = 0 THEN Plain("No new measurements available.")
    ELSE EntriesAdded(api_count)

\* Api._apply_unified_transformation: result["message"]; "0 entries added" is
\* what the last branch would format for 0 as well
message_of(api_count, new_entries_added) ==
    IF api_count = 0 /\ new_entries_added = 0 THEN Plain("No new measurements available.")
    ELSE IF api_count > 0 /\ new_entries_added = 0 THEN EntriesAdded(0)
    ELSE EntriesAdded(new_entries_added)

\* Api._handle_import_error on str(error): the texts are looked for in this
\* order; a read timeout of requests names the connection pool
handle_import_error(error) ==
    IF error = "NameResolutionError"
    THEN Plain("Network connection failed. Please check your internet connection and try again.")
    ELSE IF error = "HTTPSConnectionPool: Read timed out"
    THEN Plain("Cannot connect to Withings servers. Please check your internet connection and try again.")
    ELSE IF error = "401 Client Error: Unauthorized"
    THEN Plain("Authentication expired. Please authenticate again.")
    ELSE Message("Import failed: ", None, Some(error))

\* the dict import_data returns; count and total_unified are keys of a
\* successful result only
ImportResult(success, message, count, total_unified) ==
    [success |-> success, message |-> message, count |-> count,
     total_unified |-> total_unified]
Refused(message) == ImportResult(FALSE, message, None, None)

\* what a call of Api.import_data did: the state it leaves, what
\* is_authenticated returned (None: it was not called), the dict it returns, the start date it asked the vendor for (None: it asked for
\* nothing), the measurement requests it sent, the new_entries_added of the
\* unified transformation
ImportData(tok, file, store, unified, authcall, authenticated, result, start_date,
           requests, added) ==
    [token |-> tok, file |-> file, csv |-> store, unified |-> unified,
     authcall |-> authcall, authenticated |-> authenticated, result |-> result, start_date |-> start_date,
     requests |-> requests, added |-> added]

\* the environment a call of get_token can meet on the token tok and file
EnvsOf(tok, file, t) ==
    IF Truthy(Current(tok, file)) /\ is_token_expired(Current(tok, file), t)
    THEN {Env(r, s, "timeout", None) : r \in RefreshAnswers, s \in BOOLEAN}
    ELSE {NoEnv}

\* an import_data that goes on to the import whatever is_authenticated says
import_data_ungated(client, tok, file, t, store, unified, env, env2, reply) ==
    LET a == is_authenticated(tok, file, t, env)
        res == import_incremental_result(store, reply.body[1])
        tr == transform_to_unified_format(res.csv, unified)
    IN IF reply.status = 200 /\ reply.body # None
       THEN ImportData(a.token, a.file, res.csv, tr.unified, Some(a), a.ret,
                       ImportResult(TRUE, message_of(res.ret, tr.ret), Some(res.ret),
                                    Some(tr.ret)),
                       Some(determine_import_strategy(store)), 1, Some(tr.ret))
       ELSE ImportData(a.token, a.file, store, unified, Some(a), a.ret,
                       Refused(handle_import_error("500 Server Error")),
                       Some(determine_import_strategy(store)), 1, None)

\* Api.import_data with _import_from_withings_api and
\* _apply_unified_transformation.  env answers the get_token of
\* is_authenticated, env2 the get_token of _make_request, reply is the
\* vendor's answer to the measurement request.
import_data(client, tok, file, t, store, unified, env, env2, reply) ==
    IF ~client
    THEN ImportData(tok, file, store, unified, None, None,
                    Refused(Plain("Withings auth not initialized")), None, 0, None)
    ELSE LET a == is_authenticated(tok, file, t, env)
         IN IF a.ret # Some(TRUE)
            THEN ImportData(a.token, a.file, store, unified, Some(a), a.ret,
                            Refused(Plain("Not authenticated. Please authenticate first.")),
                            None, 0, None)
            ELSE LET start_date == determine_import_strategy(store)
                     g0 == get_token(a.token, a.file, t, env2)
                     g == make_request_auth(a.token, a.file, t, env2)
                     m == make_request(reply, Unauthorized)
                 IN IF g.outcome # "ok"
                    THEN ImportData(g.token, g.file, store, unified, Some(g), a.ret,
                                    Refused(handle_import_error(
                                        IF g0.outcome = "ok" THEN "Invalid token data"
                                        ELSE "Token expired and refresh failed")),
                                    Some(start_date), 0, None)
                    ELSE IF m.answer = None
                    THEN ImportData(g.token, g.file, store, unified, Some(g), a.ret,
                                    Refused(handle_import_error(
                                        IF m.status = 401 THEN "401 Client Error: Unauthorized"
                                        ELSE IF m.status = 200 THEN "Invalid JSON response"
                                        ELSE IF m.status = 0 THEN "NameResolutionError"
                                        ELSE IF m.status < 0
                                        THEN "HTTPSConnectionPool: Read timed out"
                                        ELSE "500 Server Error")),
                                    Some(start_date), m.requests, None)
                    ELSE LET res == import_incremental_result(store, m.answer[1])
                             tr == transform_to_unified_format(res.csv, unified)
                         IN ImportData(g.token, g.file, res.csv, tr.unified, Some(g), a.ret,
                                       ImportResult(TRUE, message_of(res.ret, tr.ret),
                                                    Some(res.ret), Some(tr.ret)),
                                       Some(start_date), m.requests, Some(tr.ret))

\* the record of an Api call kept in gui.call
ApiCall(fn, found, found_unified, authenticated, result, start_date, requests, added) ==
    [fn |-> fn, found |-> found, found_unified |-> found_unified,
     authenticated |-> authenticated, result |-> result,
     start_date |-> start_date, requests |-> requests, added |-> added]

\* the stores and unified files the GUI can find: the user may have edited or
\* deleted either file
EditedRow(t) == [date |-> Some(t), cells |-> <<Some(7000), None, None, None, None>>]
FileOfRows(rows) == [exists |-> TRUE, rows |-> rows]
ApiStores ==
    {NoFileCsv, FileOfRows(<<>>), FileOfRows(<<OkRow(1)>>),
     FileOfRows(<<OkRow(2), OkRow(1)>>), FileOfRows(<<OkRow(1), OkRow(2)>>),
     FileOfRows(<<BadDateRow, OkRow(1)>>), FileOfRows(<<OkRow(2), ShortRow(1)>>)}
ApiUnifiedFiles ==
    {NoFileCsv, FileOfRows(<<>>), FileOfRows(<<OkRow(1)>>), FileOfRows(<<EditedRow(2)>>),
     FileOfRows(<<OkRow(2), EditedRow(1)>>), FileOfRows(<<OkRow(1), OkRow(2)>>),
     FileOfRows(<<OkRow(1), BadDateRow>>)}

\* the vendor's answers to the measurement request of the GUI
GroupOf(t) == [date |-> t, measures |-> MeasA]
\* requests.post raises instead of answering: the host does not resolve
\* (status 0), the answer does not come within the timeout (status -1)
ConnectionFailed == Reply(0, None)
TimedOut == Reply(-1, None)
ApiReplies ==
    {Unauthorized, Reply(500, None), Reply(200, None), Reply(200, Some(<<>>)),
     ConnectionFailed, TimedOut,
     Reply(200, Some(<<GroupOf(1)>>)), Reply(200, Some(<<GroupOf(2)>>)),
     Reply(200, Some(<<GroupOf(1), GroupOf(2)>>))}

\* a token that is due for a refresh from 3541 on, and one without access token
ExpiresAtHour == TokenDict(Some(1), Some(1), Some(3600), None)
NoAccessToken == TokenDict(None, Some(1), None, None)

\* Api.import_data
Api_import_data ==
    \E reply \in ApiReplies :
    \E env \in EnvsOf(token, tokenFile, now) :
    \E env2 \in LET a == is_authenticated(token, tokenFile, now, env)
                IN EnvsOf(a.token, a.file, now) :
    \E d \in {import_data(gui.client, token, tokenFile, now, csv, gui.unified,
                          env, env2, reply)} :
        /\ token' = d.token
        /\ tokenFile' = d.file
        /\ csv' = d.csv
        /\ gui' = ApiRecord(gui.client, d.unified,
                            ApiCall("import_data", csv, gui.unified, d.authenticated, d.result,
                                    d.start_date, d.requests, d.added))
        /\ auth' = IF d.authcall = None THEN auth
                   ELSE AuthRecord("get_token", Truthy(token), d.authcall[1], None)
        /\ step' = 1 - step
        /\ UNCHANGED <<now, last, srv, calc>>

\* Api._transform_to_unified_format called on the two files as they are
Api_transform_to_unified_format ==
    \E tr \in {transform_to_unified_format(csv, gui.unified)} :
        /\ gui' = ApiRecord(gui.client, tr.unified,
                            ApiCall("transform_to_unified_format", csv, gui.unified, None,
                                    Refused(Plain("")), None, 0, Some(tr.ret)))
        /\ step' = 1 - step
        /\ UNCHANGED <<csv, token, tokenFile, now, auth, last, srv, calc>>

\* The Api object once constructed: without credentials there is no auth
\* client; with them _check_existing_auth has loaded the stored token.
InitApi ==
    /\ csv \in ApiStores
    /\ \E client \in BOOLEAN, unified \in ApiUnifiedFiles :
          gui = ApiRecord(client, unified, NoApiCall)
    /\ tokenFile \in {NoFile, FileOf(ExpiresAtHour), FileOf(NoAccessToken)}
    /\ token = IF gui.client THEN load_token(tokenFile) ELSE None
    /\ now = 0
    /\ auth = NoAuthCall
    /\ last = NoImportCall
    /\ step = 0
    /\ srv = NoServer
    /\ calc = NoCalc

NextApi == Api_import_data \/ Api_transform_to_unified_format \/ Tick

SpecApi == InitApi /\ [][NextApi]_vars

\* ------------------------------------------------ properties of the GUI's import
\* the most recent Api call was an import_data that sent its request for the
\* measurements from start_date on
Imported ==
    gui.call.fn = "import_data" /\ gui.call.start_date # None /\ gui.call.requests = 1
HasDataRow(file) == file.exists /\ Len(file.rows) >= 1
NewestStamp(file) == CHOOSE t \in StoreStamps(file) : \A u \in StoreStamps(file) : u <= t

\* C24 as stated: the fetch start is one day after the timestamp of the first
\* data row whenever the store exists and has a data row, and the floor
\* 2015-01-01 when the store is absent or has no data row.
C24_FetchWindow ==
    Imported =>
        IF HasDataRow(gui.call.found)
        THEN /\ gui.call.found.rows[1].date # None
             /\ gui.call.start_date = Some(gui.call.found.rows[1].date[1] + OneDay)
        ELSE gui.call.start_date = Some(HistoricalFloor)

\* C24 amended: the fetch start is one day after the timestamp of the first
\* data row when the store exists and that row's timestamp parses, which is
\* the newest record of a store that is newest-first; it is the floor
\* 2015-01-01 when the store is absent, has no data row, or has a first data
\* row whose timestamp does not parse.
C24_FetchWindowFirstRowParsed ==
    Imported =>
        LET f == gui.call.found
        IN /\ (HasDataRow(f) /\ f.rows[1].date # None)
                => gui.call.start_date = Some(f.rows[1].date[1] + OneDay)
           /\ (HasDataRow(f) /\ StrictlyDescending(f.rows))
                => gui.call.start_date = Some(NewestStamp(f) + OneDay)
           /\ (~HasDataRow(f) \/ f.rows[1].date = None)
                => gui.call.start_date = Some(HistoricalFloor)

\* import_data found a store whose newest line is of day 2 and asked the
\* vendor for the measurements from day 3 on
C24_Witness ==
    /\ Imported /\ gui.call.requests = 1
    /\ gui.call.found = FileOfRows(<<OkRow(2), OkRow(1)>>)
    /\ gui.call.start_date = Some(3)

\* the most recent step was a call that ran _transform_to_unified_format
Transformed == step' # step /\ gui'.call.added # None

\* C27: _transform_to_unified_format returns the number of Withings rows whose
\* timestamp was not in the unified file before the call, and a further call
\* on an unchanged Withings file returns 0.
C27_ReturnsEntriesAdded ==
    [][Transformed
       => /\ gui'.call.added
                = Some(Cardinality(StoreStamps(csv') \ StoreStamps(gui.unified)))
          /\ (gui.call.added # None /\ csv' = csv) => gui'.call.added = Some(0)]_vars

\* how often a line occurs in a file
Occurrences(rows, r) == Cardinality({i \in 1..Len(rows) : rows[i] = r})
\* every line has a date and no line stands above a newer one
NewestFirst(rows) ==
    /\ \A i \in 1..Len(rows) : rows[i].date # None
    /\ \A i, j \in 1..Len(rows) : i < j => rows[i].date[1] >= rows[j].date[1]

\* C28: after _transform_to_unified_format every line the unified file had is
\* in it exactly once, as it was, whether or not the Withings file still has
\* it, and a unified file that was merged is newest-first.
C28_ReimportKeepsUnifiedRows ==
    [][(Transformed /\ gui.unified.exists)
       => /\ \A r \in RowsOf(gui.unified) : Occurrences(gui'.unified.rows, r) = 1
          /\ HasDataRow(csv') => NewestFirst(gui'.unified.rows)]_vars

\* the most recent Api call was an import_data that returned success
Succeeded == gui.call.fn = "import_data" /\ gui.call.result.success

\* C29: the message of a successful import_data follows from the count the
\* import returned and the number of entries the transformation added: "No new
\* measurements available." when both are 0, "0 entries added" when only the
\* latter is 0, "<n> entries added" for n entries added otherwise; and
\* total_unified is the number of entries added.
C29_StatusMessage ==
    Succeeded =>
        LET api_count == gui.call.result.count[1]
            new_entries_added == gui.call.added[1]
            message == gui.call.result.message
        IN /\ (api_count = 0 /\ new_entries_added = 0)
                => message = Plain("No new measurements available.")
           /\ (api_count > 0 /\ new_entries_added = 0) => message = EntriesAdded(0)
           /\ new_entries_added > 0 => message = EntriesAdded(new_entries_added)
           /\ gui.call.result.total_unified = Some(new_entries_added)

\* the vendor sent one measurement the unified file already had: the import
\* counted 1, nothing was added, and the user reads "0 entries added"
C29_Witness ==
    /\ Succeeded
    /\ gui.call.result.count = Some(1) /\ gui.call.added = Some(0)
    /\ gui.call.result.message = EntriesAdded(0)
    /\ gui.call.result.total_unified = Some(0)

\* C30: import_data without an auth client, or with a session that
\* is_authenticated reports as not authenticated, returns success = False
\* with the message of its case, sends no measurement request and leaves the
\* Withings CSV and the unified CSV as they were; without an auth client it
\* does not touch the session either.
C30_ImportGated ==
    [][(step' # step /\ gui'.call.fn = "import_data"
        /\ (~gui.client \/ gui'.call.authenticated = Some(FALSE)))
       => /\ gui'.call.result.success = FALSE
          /\ gui'.call.result.message
                = IF ~gui.client THEN Plain("Withings auth not initialized")
                  ELSE Plain("Not authenticated. Please authenticate first.")
          /\ gui'.call.requests = 0
          /\ csv' = csv /\ gui'.unified = gui.unified
          /\ ~gui.client => UNCHANGED <<token, tokenFile, auth>>]_vars

\* import_data found a Withings CSV with data and a stored token that was due;
\* the refresh failed, the call refused, both files are as they were
C30_Witness ==
    /\ gui.call.fn = "import_data" /\ gui.client
    /\ gui.call.authenticated = Some(FALSE) /\ auth.net >= 1
    /\ gui.call.result = Refused(Plain("Not authenticated. Please authenticate first."))
    /\ HasDataRow(gui.call.found) /\ csv = gui.call.found
    /\ gui.unified = gui.call.found_unified

\* ======================================================= the GUI's session
\* str(e) of the exception WithingsAuth.authenticate ends with
exception_text(outcome) ==
    IF outcome = "TimeoutError" THEN "Timed out waiting for authorization code"
    ELSE IF outcome = "UnicodeDecodeError" THEN "'utf-8' codec can't decode byte"
    ELSE "Withings API error: invalid_grant"

Succeeded_with(text) == ImportResult(TRUE, Plain(text), None, None)

\* what a call of an Api command did to the session and the files, and the
\* dict it returned
Command(client, tok, file, store, unified, effect, authenticated, result) ==
    [client |-> client, token |-> tok, file |-> file, csv |-> store, unified |-> unified,
     effect |-> effect, authenticated |-> authenticated, result |-> result]

\* Api.authenticate.  credentials tells whether _initialize_auth finds client
\* id and secret when there is no auth client yet; a new WithingsAuth starts
\* with no token in memory.
api_authenticate(client, credentials, tok, file, t, store, unified, env) ==
    IF ~client /\ ~credentials
    THEN Command(FALSE, tok, file, store, unified, None, None,
                 Refused(Plain("Withings not properly initialized")))
    ELSE LET e == authenticate(IF client THEN tok ELSE None, file, t, env)
         IN Command(TRUE, e.token, e.file, store, unified, Some(e), None,
                    IF e.outcome = "ok"
                    THEN Succeeded_with("Successfully authenticated with Withings")
                    ELSE Refused(Message("", None, Some(exception_text(e.outcome)))))

\* Api.is_authenticated
api_is_authenticated(client, tok, file, t, store, unified, env) ==
    IF ~client
    THEN Command(client, tok, file, store, unified, None, Some(FALSE), Succeeded_with(""))
    ELSE LET a == is_authenticated(tok, file, t, env)
         IN Command(client, a.token, a.file, store, unified, Some(a), a.ret,
                    Succeeded_with(""))

\* the message of a clear_data that deleted these files
cleared_message(store, unified) ==
    IF store.exists /\ unified.exists
    THEN "Data and authentication cleared successfully. Deleted files: raw_data_withings_api.csv, raw_data_this_app.csv"
    ELSE IF store.exists
    THEN "Data and authentication cleared successfully. Deleted files: raw_data_withings_api.csv"
    ELSE IF unified.exists
    THEN "Data and authentication cleared successfully. Deleted files: raw_data_this_app.csv"
    ELSE "Data and authentication cleared successfully"

\* a clear_data that empties the token store whether or not there is an auth
\* client and whatever os.remove does
api_clear_data_thorough(client, tok, file, store, unified, removed, unlinked) ==
    IF ~unlinked /\ (store.exists \/ unified.exists)
    THEN Command(client, None, NoFile, store, unified, None, None,
                 Refused(Message("Failed to clear data: ", None, Some("Permission denied"))))
    ELSE Command(client, None, NoFile, NoFileCsv, NoFileCsv, None, None,
                 Succeeded_with(cleared_message(store, unified)))

\* Api.clear_data.  removed tells whether os.remove of the token file goes
\* through (clear_token logs an IOError and returns), unlinked whether the
\* unlink of the CSV files does (its exception ends the call).
api_clear_data(client, tok, file, store, unified, removed, unlinked) ==
    LET tok1 == IF client THEN None ELSE tok
        file1 == IF client /\ removed THEN clear_token(file) ELSE file
    IN IF ~unlinked /\ (store.exists \/ unified.exists)
       THEN Command(client, tok1, file1, store, unified, None, None,
                    Refused(Message("Failed to clear data: ", None, Some("Permission denied"))))
       ELSE Command(client, tok1, file1, NoFileCsv, NoFileCsv, None, None,
                    Succeeded_with(cleared_message(store, unified)))

\* an Api command other than import_data takes effect
ApiCommand(fn, c) ==
    /\ token' = c.token
    /\ tokenFile' = c.file
    /\ csv' = c.csv
    /\ gui' = ApiRecord(c.client, c.unified,
                        ApiCall(fn, csv, gui.unified, c.authenticated, c.result, None, 0, None))
    /\ auth' = IF c.effect = None THEN auth
               ELSE AuthRecord(fn, Truthy(token), c.effect[1], None)
    /\ step' = 1 - step
    /\ UNCHANGED <<now, last, srv, calc>>

\* what authenticate can meet: the refresh of a stored token succeeds or not,
\* the callback times out or brings a code, the exchange raises, answers with
\* an error or with a token, the token is saved or not
ApiAuthenticateEnvs ==
    {Env(Some(ValidForever), TRUE, "timeout", None),
     Env(None, TRUE, "timeout", None),
     Env(None, TRUE, "code", None),
     Env(None, TRUE, "code", Some(ExchangeAnswer(200, TRUE, TRUE, EmptyDict))),
     Env(None, TRUE, "code", Some(ExchangeAnswer(200, TRUE, FALSE, ValidForever))),
     Env(None, FALSE, "code", Some(ExchangeAnswer(200, TRUE, FALSE, ValidForever)))}

Api_authenticate ==
    \E env \in ApiAuthenticateEnvs, credentials \in BOOLEAN :
        ApiCommand("authenticate",
                   api_authenticate(gui.client, credentials, token, tokenFile, now,
                                    csv, gui.unified, env))

Api_is_authenticated ==
    \E env \in EnvsOf(token, tokenFile, now) :
        ApiCommand("is_authenticated",
                   api_is_authenticated(gui.client, token, tokenFile, now, csv,
                                        gui.unified, env))

Api_clear_data ==
    \E removed \in BOOLEAN, unlinked \in BOOLEAN :
        ApiCommand("clear_data",
                   api_clear_data(gui.client, token, tokenFile, csv, gui.unified,
                                  removed, unlinked))

\* the Api object once constructed, on a Withings CSV and a unified file that
\* are absent or hold one line
InitApiSession ==
    /\ InitApi
    /\ csv \in {NoFileCsv, FileOfRows(<<OkRow(1)>>)}
    /\ gui.unified \in {NoFileCsv, FileOfRows(<<OkRow(1)>>)}
    /\ tokenFile \in {NoFile, FileOf(ExpiresAtHour)}

NextApiSession ==
    Api_clear_data \/ Api_is_authenticated \/ Api_authenticate \/ Api_import_data \/ Tick

SpecApiSession == InitApiSession /\ [][NextApiSession]_vars

\* ------------------------------------------- properties of the GUI's session
\* this step is a call of the Api command fn
Called(fn) == step' # step /\ gui'.call.fn = fn
\* no token in memory and none in the token store
LoggedOut == token = None /\ tokenFile.kind = "absent"

\* C31: a clear_data that returns success leaves the token store empty, the
\* token slot unset and both CSV files deleted; and from a session without
\* any token, whatever is called short of an authenticate that succeeds, the
\* session stays without a token, is_authenticated answers False and
\* import_data refuses without asking the vendor.
C31_ClearDataLogsOut ==
    [][/\ (Called("clear_data") /\ gui'.call.result.success)
          => (LoggedOut' /\ ~csv'.exists /\ ~gui'.unified.exists)
       /\ (LoggedOut /\ step' # step
           /\ ~(Called("authenticate") /\ gui'.call.result.success))
          => /\ LoggedOut'
             /\ Called("is_authenticated") => gui'.call.authenticated = Some(FALSE)
             /\ Called("import_data")
                   => (~gui'.call.result.success /\ gui'.call.requests = 0)]_vars

\* C32: whenever import_data or authenticate of the Api has returned a
\* failure, its message is one of the fixed messages of a category and holds
\* no text of the exception.
C32_FailuresTranslated ==
    (gui.call.fn \in {"import_data", "authenticate"} /\ ~gui.call.result.success)
    => gui.call.result.message.raw = None

====
